---- MODULE Spec2Model ----
(***************************************************************************)
(* Ghost-zone boundary exchange of cell-centered variables                 *)
(* (bvals_cc_in_one): index-window calculators, buffer layout, the pack    *)
(* kernel and the send / receive / set pipeline with sparse allocation;    *)
(* the receive task with its timeout; the faces and edges of the forest.   *)
(***************************************************************************)
EXTENDS Integers, Sequences, FiniteSets, TLC

VARIABLES
  idx,      \* index-window calculation: inputs (block, neighbor) and the windows computed
  lay,      \* one cache entry packed into its buffer and unpacked again, row by row
  kern,     \* the team of threads packing one cache entry in SendBoundaryBuffers
  rcv,      \* ReceiveBoundaryBuffers polling the blocks of one MeshData, with its timeout
  forest,   \* the faces of a forest and the edge whose neighbors are looked up
  snd,      \* SendBoundaryBuffers of one MeshData with its pack kernel running on the device
  tasks,    \* the task list the driver makes for one partition and one stage
  setup,           \* the mesh of the run and the interiors its update task may leave
  sparse_enabled,  \* Globals::sparse_config.enabled
  pack_size,       \* blocks per MeshData partition
  ncycle,          \* the exchanges that are through
  allocated,       \* [block -> v->IsAllocated()]
  data,            \* [block -> [cell (v,k,j,i) -> value]]: v->data
  send,            \* [block -> [bufid -> buffer]]: GetPBdVar()->send
  recv,            \* [block -> [bufid -> buffer]]: GetPBdVar()->recv
  sflag,           \* [block -> [bufid -> status]]: GetPBdVar()->sflag
  flag,            \* [block -> [bufid -> status]]: GetPBdVar()->flag
  lna,             \* [block -> [n -> BOOLEAN]]: v->vbvar->local_neighbor_allocated
  sendCache,       \* [md -> send_boundary_info, its alloc status and nonzero flags]
  setCache,        \* [md -> set_boundary_info and its alloc status]
  pc,              \* [md -> the task of its task list that runs next]
  cur,             \* the task running on the host thread, with its position
  err,             \* the fatal error raised, or "none"
  hist             \* history of the current exchange, read by the properties only

exvars == <<setup, sparse_enabled, pack_size, ncycle, allocated, data, send, recv, sflag, flag,
            lna, sendCache, setCache, pc, cur, err, hist>>

vars == <<idx, lay, kern, rcv, forest, snd, tasks, exvars>>

Unused == [unused |-> TRUE]

\* the exchange variables in the specifications that do not run the exchange
ExUnused ==
  /\ setup = Unused /\ sparse_enabled = FALSE /\ pack_size = 0 /\ ncycle = 0
  /\ allocated = Unused /\ data = Unused
  /\ send = Unused /\ recv = Unused /\ sflag = Unused /\ flag = Unused /\ lna = Unused
  /\ sendCache = Unused /\ setCache = Unused /\ pc = Unused /\ cur = Unused
  /\ err = "none" /\ hist = Unused

-----------------------------------------------------------------------------
(* Bounds of the model *)

MaxHalf == 2          \* block sizes in an active dimension are 2*h, h in 1..MaxHalf
MaxNGhost == 2        \* Globals::nghost ranges over 1..MaxNGhost
MaxCNGhost == 2       \* pmb->cnghost ranges over 1..MaxCNGhost
MaxExtent == 2        \* Ni, Nj, Nk, Nv of a packed window range over 1..MaxExtent
MaxRows == 3          \* rows (v,k,j) of the entry one team packs: 1..MaxRows
MaxTeam == 2          \* threads of a team: 1..MaxTeam
MaxExchanges == 2     \* exchanges in a row over the same MeshData partitions

-----------------------------------------------------------------------------
(* Index ranges of a block *)

\* IndexShape: an active dimension of n cells with ng ghost cells has the
\* interior range [ng, ng + n - 1]; an inactive dimension is the single cell [0, 0].
IndexRange(n, ng, active) ==
  IF active THEN [s |-> ng, e |-> ng + n - 1] ELSE [s |-> 0, e |-> 0]

\* pmb->cellbounds.GetBounds{I,J,K}(interior)
cellbounds(pmb) ==
  [i |-> IndexRange(pmb.nx1, pmb.ng, TRUE),
   j |-> IndexRange(pmb.nx2, pmb.ng, pmb.nx2 > 1),
   k |-> IndexRange(pmb.nx3, pmb.ng, pmb.nx3 > 1)]

\* pmb->c_cellbounds.GetBounds{I,J,K}(interior): the block coarsened by two
c_cellbounds(pmb) ==
  [i |-> IndexRange(pmb.nx1 \div 2, pmb.ng, TRUE),
   j |-> IndexRange(pmb.nx2 \div 2, pmb.ng, pmb.nx2 > 1),
   k |-> IndexRange(pmb.nx3 \div 2, pmb.ng, pmb.nx3 > 1)]

\* the range of an array along one dimension: the interior range b with the ghost
\* cells on both sides of an active dimension
EntireRange(b, ghost, active) ==
  IF active THEN [s |-> b.s - ghost, e |-> b.e + ghost] ELSE b

Window(si, ei, sj, ej, sk, ek) ==
  [si |-> si, ei |-> ei, sj |-> sj, ej |-> ej, sk |-> sk, ek |-> ek]

-----------------------------------------------------------------------------
(* The index-window calculators *)

CalcIndicesSetSame_OffByOne(ox, bounds, ng) ==
  IF ox = 0 THEN [s |-> bounds.s, e |-> bounds.e]
  ELSE IF ox > 0 THEN [s |-> bounds.e, e |-> bounds.e + ng]
  ELSE [s |-> bounds.s - ng, e |-> bounds.s - 1]

CalcIndicesSetSame(ox, bounds, ng) ==
  IF ox = 0 THEN [s |-> bounds.s, e |-> bounds.e]
  ELSE IF ox > 0 THEN [s |-> bounds.e + 1, e |-> bounds.e + ng]
  ELSE [s |-> bounds.s - ng, e |-> bounds.s - 1]

CalcIndicesSetFromCoarser(ox, bounds, lx, cng, include_dim) ==
  IF ox = 0 THEN
    IF include_dim THEN
      IF lx % 2 = 0 THEN [s |-> bounds.s, e |-> bounds.e + cng]
      ELSE [s |-> bounds.s - cng, e |-> bounds.e]
    ELSE [s |-> bounds.s, e |-> bounds.e]
  ELSE IF ox > 0 THEN [s |-> bounds.e + 1, e |-> bounds.e + cng]
  ELSE [s |-> bounds.s - cng, e |-> bounds.s - 1]

\* one axis of CalcIndicesSetFromFiner: fi is the fi1/fi2 the code reads for the
\* axis, halve is FALSE where the code skips the halving (nx2 = 1, nx3 = 1)
SetFromFinerAxis(ox, b, nx, fi, halve, ng) ==
  IF ox = 0 THEN
    IF halve THEN
      IF fi = 1 THEN [s |-> b.s + nx \div 2, e |-> b.e]
      ELSE [s |-> b.s, e |-> b.e - nx \div 2]
    ELSE [s |-> b.s, e |-> b.e]
  ELSE IF ox > 0 THEN [s |-> b.e + 1, e |-> b.e + ng]
  ELSE [s |-> b.s - ng, e |-> b.s - 1]

CalcIndicesSetFromFiner_Nx1ForX2(nb, pmb) ==
  LET cb == cellbounds(pmb)
      i == SetFromFinerAxis(nb.ox1, cb.i, pmb.nx1, nb.fi1, TRUE, pmb.ng)
      j == SetFromFinerAxis(nb.ox2, cb.j, pmb.nx1,
                            IF nb.ox1 # 0 THEN nb.fi1 ELSE nb.fi2,
                            pmb.nx2 > 1, pmb.ng)
      k == SetFromFinerAxis(nb.ox3, cb.k, pmb.nx3,
                            IF nb.ox1 # 0 /\ nb.ox2 # 0 THEN nb.fi1 ELSE nb.fi2,
                            pmb.nx3 > 1, pmb.ng)
  IN Window(i.s, i.e, j.s, j.e, k.s, k.e)

CalcIndicesSetFromFiner_AnyForX3(nb, pmb) ==
  LET cb == cellbounds(pmb)
      i == SetFromFinerAxis(nb.ox1, cb.i, pmb.nx1, nb.fi1, TRUE, pmb.ng)
      j == SetFromFinerAxis(nb.ox2, cb.j, pmb.nx2,
                            IF nb.ox1 # 0 THEN nb.fi1 ELSE nb.fi2,
                            pmb.nx2 > 1, pmb.ng)
      k == SetFromFinerAxis(nb.ox3, cb.k, pmb.nx3,
                            IF nb.ox1 # 0 \/ nb.ox2 # 0 THEN nb.fi1 ELSE nb.fi2,
                            pmb.nx3 > 1, pmb.ng)
  IN Window(i.s, i.e, j.s, j.e, k.s, k.e)

CalcIndicesSetFromFiner(nb, pmb) ==
  LET cb == cellbounds(pmb)
      i == SetFromFinerAxis(nb.ox1, cb.i, pmb.nx1, nb.fi1, TRUE, pmb.ng)
      j == SetFromFinerAxis(nb.ox2, cb.j, pmb.nx2,
                            IF nb.ox1 # 0 THEN nb.fi1 ELSE nb.fi2,
                            pmb.nx2 > 1, pmb.ng)
      k == SetFromFinerAxis(nb.ox3, cb.k, pmb.nx3,
                            IF nb.ox1 # 0 /\ nb.ox2 # 0 THEN nb.fi1 ELSE nb.fi2,
                            pmb.nx3 > 1, pmb.ng)
  IN Window(i.s, i.e, j.s, j.e, k.s, k.e)

CalcIndicesLoadSame_OneMore(ox, bounds, ng) ==
  IF ox = 0 THEN [s |-> bounds.s, e |-> bounds.e]
  ELSE IF ox > 0 THEN [s |-> bounds.e - ng, e |-> bounds.e]
  ELSE [s |-> bounds.s, e |-> bounds.s + ng]

CalcIndicesLoadSame(ox, bounds, ng) ==
  IF ox = 0 THEN [s |-> bounds.s, e |-> bounds.e]
  ELSE IF ox > 0 THEN [s |-> bounds.e - ng + 1, e |-> bounds.e]
  ELSE [s |-> bounds.s, e |-> bounds.s + ng - 1]

\* one axis of CalcIndicesLoadToFiner: cn is the code's pmb->cnghost - 1
LoadToFinerAxis_HalfOnly(ox, b, nx, fi, halve, cn, cng) ==
  LET s0 == IF ox > 0 THEN b.e - cn ELSE b.s
      e0 == IF ox < 0 THEN b.s + cn ELSE b.e
  IN IF ox = 0 /\ halve THEN
       IF fi = 1 THEN [s |-> s0 + nx \div 2, e |-> e0]
       ELSE [s |-> s0, e |-> e0 - nx \div 2]
     ELSE [s |-> s0, e |-> e0]

LoadToFinerAxis(ox, b, nx, fi, halve, cn, cng) ==
  LET s0 == IF ox > 0 THEN b.e - cn ELSE b.s
      e0 == IF ox < 0 THEN b.s + cn ELSE b.e
  IN IF ox = 0 /\ halve THEN
       IF fi = 1 THEN [s |-> s0 + (nx \div 2 - cng), e |-> e0]
       ELSE [s |-> s0, e |-> e0 - (nx \div 2 - cng)]
     ELSE [s |-> s0, e |-> e0]

CalcIndicesLoadToFiner_Fi2ForX2(nb, pmb) ==
  LET cb == cellbounds(pmb)
      cn == pmb.cng - 1
      i == LoadToFinerAxis(nb.ox1, cb.i, pmb.nx1, nb.fi1, TRUE, cn, pmb.cng)
      j == LoadToFinerAxis(nb.ox2, cb.j, pmb.nx2, nb.fi2, pmb.nx2 > 1, cn, pmb.cng)
      k == LoadToFinerAxis(nb.ox3, cb.k, pmb.nx3,
                           IF nb.ox1 # 0 /\ nb.ox2 # 0 THEN nb.fi1 ELSE nb.fi2,
                           pmb.nx3 > 1, cn, pmb.cng)
  IN Window(i.s, i.e, j.s, j.e, k.s, k.e)

CalcIndicesLoadToFiner_FullWidth(nb, pmb) ==
  LET cb == cellbounds(pmb)
      cn == pmb.cng
      i == LoadToFinerAxis(nb.ox1, cb.i, pmb.nx1, nb.fi1, TRUE, cn, pmb.cng)
      j == LoadToFinerAxis(nb.ox2, cb.j, pmb.nx2,
                           IF nb.ox1 # 0 THEN nb.fi1 ELSE nb.fi2,
                           pmb.nx2 > 1, cn, pmb.cng)
      k == LoadToFinerAxis(nb.ox3, cb.k, pmb.nx3,
                           IF nb.ox1 # 0 /\ nb.ox2 # 0 THEN nb.fi1 ELSE nb.fi2,
                           pmb.nx3 > 1, cn, pmb.cng)
  IN Window(i.s, i.e, j.s, j.e, k.s, k.e)

CalcIndicesLoadToFiner(nb, pmb) ==
  LET cb == cellbounds(pmb)
      cn == pmb.cng - 1
      i == LoadToFinerAxis(nb.ox1, cb.i, pmb.nx1, nb.fi1, TRUE, cn, pmb.cng)
      j == LoadToFinerAxis(nb.ox2, cb.j, pmb.nx2,
                           IF nb.ox1 # 0 THEN nb.fi1 ELSE nb.fi2,
                           pmb.nx2 > 1, cn, pmb.cng)
      k == LoadToFinerAxis(nb.ox3, cb.k, pmb.nx3,
                           IF nb.ox1 # 0 /\ nb.ox2 # 0 THEN nb.fi1 ELSE nb.fi2,
                           pmb.nx3 > 1, cn, pmb.cng)
  IN Window(i.s, i.e, j.s, j.e, k.s, k.e)

-----------------------------------------------------------------------------
(* The window of one cache entry, as the two cache builders choose it *)

\* ResetSendBufferBoundaryInfo: the source window of an allocated variable
SendWindow(nb, pmb) ==
  IF nb.level = pmb.level THEN
    LET cb == cellbounds(pmb)
        i == CalcIndicesLoadSame(nb.ox1, cb.i, pmb.ng)
        j == CalcIndicesLoadSame(nb.ox2, cb.j, pmb.ng)
        k == CalcIndicesLoadSame(nb.ox3, cb.k, pmb.ng)
    IN Window(i.s, i.e, j.s, j.e, k.s, k.e)
  ELSE IF nb.level < pmb.level THEN
    LET cb == c_cellbounds(pmb)
        i == CalcIndicesLoadSame(nb.ox1, cb.i, pmb.ng)
        j == CalcIndicesLoadSame(nb.ox2, cb.j, pmb.ng)
        k == CalcIndicesLoadSame(nb.ox3, cb.k, pmb.ng)
    IN Window(i.s, i.e, j.s, j.e, k.s, k.e)
  ELSE CalcIndicesLoadToFiner(nb, pmb)

\* ResetSetFromBufferBoundaryInfo: the destination window of an allocated variable
SetWindow(nb, pmb) ==
  IF nb.level = pmb.level THEN
    LET cb == cellbounds(pmb)
        i == CalcIndicesSetSame(nb.ox1, cb.i, pmb.ng)
        j == CalcIndicesSetSame(nb.ox2, cb.j, pmb.ng)
        k == CalcIndicesSetSame(nb.ox3, cb.k, pmb.ng)
    IN Window(i.s, i.e, j.s, j.e, k.s, k.e)
  ELSE IF nb.level < pmb.level THEN
    LET cb == c_cellbounds(pmb)
        i == CalcIndicesSetFromCoarser(nb.ox1, cb.i, pmb.lx1, pmb.cng, TRUE)
        j == CalcIndicesSetFromCoarser(nb.ox2, cb.j, pmb.lx2, pmb.cng, pmb.nx2 > 1)
        k == CalcIndicesSetFromCoarser(nb.ox3, cb.k, pmb.lx3, pmb.cng, pmb.nx3 > 1)
    IN Window(i.s, i.e, j.s, j.e, k.s, k.e)
  ELSE CalcIndicesSetFromFiner(nb, pmb)

Ni(w) == w.ei + 1 - w.si
Nj(w) == w.ej + 1 - w.sj
Nk(w) == w.ek + 1 - w.sk

-----------------------------------------------------------------------------
(* Index windows of a sender and its receiver                               *)

NoWin == [none |-> TRUE]

\* block sizes: x1 is always active; x3 is active only if x2 is
BlockSizes ==
  {n \in [nx1 : {2 * h : h \in 1..MaxHalf},
          nx2 : {1} \cup {2 * h : h \in 1..MaxHalf},
          nx3 : {1} \cup {2 * h : h \in 1..MaxHalf}] : n.nx3 > 1 => n.nx2 > 1}

\* neighbor offsets: not all zero, and zero in an inactive dimension
Offsets(n) ==
  {o \in [ox1 : {-1, 0, 1}, ox2 : {-1, 0, 1}, ox3 : {-1, 0, 1}] :
     /\ ~(o.ox1 = 0 /\ o.ox2 = 0 /\ o.ox3 = 0)
     /\ (n.nx2 = 1 => o.ox2 = 0)
     /\ (n.nx3 = 1 => o.ox3 = 0)}

MkBlock(n, ng, cng, level, lx1, lx2, lx3) ==
  [nx1 |-> n.nx1, nx2 |-> n.nx2, nx3 |-> n.nx3, ng |-> ng, cng |-> cng,
   level |-> level, lx1 |-> lx1, lx2 |-> lx2, lx3 |-> lx3]

MkNeighbor(level, ox1, ox2, ox3, fi1, fi2) ==
  [level |-> level, ox1 |-> ox1, ox2 |-> ox2, ox3 |-> ox3, fi1 |-> fi1, fi2 |-> fi2]

\* the sender is at level 1; the receiver is at level 1 (same), 0 (coarser) or
\* 2 (finer).  fi1 = fi2 = 0 for a same-level neighbor; lx is the logical
\* coordinate of the finer block of the pair.
IdxInit ==
  /\ lay = Unused /\ kern = Unused /\ rcv = Unused /\ forest = Unused /\ ExUnused
  /\ snd = Unused /\ tasks = Unused
  /\ \E n \in BlockSizes, ng \in 1..MaxNGhost, cng \in 1..MaxCNGhost, rl \in {0, 1, 2} :
     \E o \in Offsets(n) :
     \E fi1 \in (IF rl = 1 THEN {0} ELSE {0, 1}), fi2 \in (IF rl = 1 THEN {0} ELSE {0, 1}) :
     \E lx1 \in (IF rl = 2 THEN {0, 1} ELSE {0}),
        lx2 \in (IF rl = 2 /\ n.nx2 > 1 THEN {0, 1} ELSE {0}),
        lx3 \in (IF rl = 2 /\ n.nx3 > 1 THEN {0, 1} ELSE {0}) :
       idx = [pmb |-> MkBlock(n, ng, cng, 1, 0, 0, 0),
              rpmb |-> MkBlock(n, ng, cng, rl, lx1, lx2, lx3),
              nb |-> MkNeighbor(rl, o.ox1, o.ox2, o.ox3, fi1, fi2),
              rnb |-> MkNeighbor(1, -o.ox1, -o.ox2, -o.ox3, fi1, fi2),
              load |-> NoWin, set |-> NoWin]

\* the sender's cache builder computes the source window
IdxLoad ==
  /\ idx.load = NoWin
  /\ idx' = [idx EXCEPT !.load = SendWindow(idx.nb, idx.pmb)]
  /\ UNCHANGED <<lay, kern, rcv, forest, snd, tasks, exvars>>

\* the receiver's cache builder computes the destination window
IdxSet ==
  /\ idx.load # NoWin
  /\ idx.set = NoWin
  /\ idx' = [idx EXCEPT !.set = SetWindow(idx.rnb, idx.rpmb)]
  /\ UNCHANGED <<lay, kern, rcv, forest, snd, tasks, exvars>>

IdxNext == IdxLoad \/ IdxSet

SpecIdx == IdxInit /\ [][IdxNext]_vars

IdxBoth == idx # Unused /\ idx.load # NoWin /\ idx.set # NoWin

-----------------------------------------------------------------------------
(* The two calculators of a coarse block and one finer neighbor: the window  *)
(* the block loads to the neighbor and the window it sets from the neighbor  *)

FiInit ==
  /\ lay = Unused /\ kern = Unused /\ rcv = Unused /\ forest = Unused /\ ExUnused
  /\ snd = Unused /\ tasks = Unused
  /\ \E n \in BlockSizes, ng \in 1..MaxNGhost, cng \in 1..MaxCNGhost :
     \E o \in Offsets(n), fi1 \in {0, 1}, fi2 \in {0, 1} :
       idx = [pmb |-> MkBlock(n, ng, cng, 1, 0, 0, 0),
              nb |-> MkNeighbor(2, o.ox1, o.ox2, o.ox3, fi1, fi2),
              toFiner |-> NoWin, fromFiner |-> NoWin]

FiLoad ==
  /\ idx.toFiner = NoWin
  /\ idx' = [idx EXCEPT !.toFiner = CalcIndicesLoadToFiner(idx.nb, idx.pmb)]
  /\ UNCHANGED <<lay, kern, rcv, forest, snd, tasks, exvars>>

FiSet ==
  /\ idx.fromFiner = NoWin
  /\ idx' = [idx EXCEPT !.fromFiner = CalcIndicesSetFromFiner(idx.nb, idx.pmb)]
  /\ UNCHANGED <<lay, kern, rcv, forest, snd, tasks, exvars>>

FiNext == FiLoad \/ FiSet

SpecFi == FiInit /\ [][FiNext]_vars

-----------------------------------------------------------------------------
(* Buffer layout: the pack kernel of SendBoundaryBuffers and the unpack    *)
(* kernel of SetBoundaries on one cache entry                              *)

\* the offset of cell (v,k,j,i) in the buffer, as the pack kernel computes it
PackOffset(w, Nv, v, k, j, i) ==
  i - w.si + Ni(w) * (j - w.sj + Nj(w) * (k - w.sk + Nk(w) * v))

SetOffset_VarFastest(w, Nv, v, k, j, i) ==
  v + Nv * (i - w.si + Ni(w) * (j - w.sj + Nj(w) * (k - w.sk)))

\* the offset of cell (v,k,j,i) in the buffer, as the unpack kernel computes it
SetOffset(w, Nv, v, k, j, i) ==
  i - w.si + Ni(w) * (j - w.sj + Nj(w) * (k - w.sk + Nk(w) * v))

\* the offset of the tag element: NvNkNj * Ni
TagOffset(w, Nv) == (Nv * Nk(w) * Nj(w)) * Ni(w)

\* the (v, k, j) of iteration idx of the TeamThreadRange over NvNkNj
RowOf(w, Nv, rowidx) ==
  LET NkNj == Nk(w) * Nj(w)
      v == rowidx \div NkNj
      k == (rowidx - v * NkNj) \div Nj(w)
      j == rowidx - v * NkNj - k * Nj(w)
  IN [v |-> v, k |-> k + w.sk, j |-> j + w.sj]

\* the source array holds in each cell the cell's own index, so that the origin
\* of every value in the buffer and in the destination can be told
SrcVal(v, k, j, i) == <<v, k, j, i>>

WindowOf(si, sj, sk, ni, nj, nk) ==
  Window(si, si + ni - 1, sj, sj + nj - 1, sk, sk + nk - 1)

WCells(w, Nv) ==
  {<<v, k, j, i>> : v \in 0..(Nv - 1), k \in w.sk..w.ek, j \in w.sj..w.ej, i \in w.si..w.ei}

LayInit ==
  /\ idx = Unused /\ kern = Unused /\ rcv = Unused /\ forest = Unused /\ ExUnused
  /\ snd = Unused /\ tasks = Unused
  /\ \E ni \in 1..MaxExtent, nj \in 1..MaxExtent, nk \in 1..MaxExtent, nv \in 1..MaxExtent :
     \E o \in [i : {0, 1}, j : {0, 1}, k : {0, 1}], shift \in {0, 2} :
       LET w == WindowOf(o.i, o.j, o.k, ni, nj, nk)
           d == WindowOf(o.i + shift, o.j + shift, o.k + shift, ni, nj, nk)
       IN lay = [w |-> w, d |-> d, Nv |-> nv, phase |-> "pack", row |-> 0,
                 buf |-> [o2 \in 0..TagOffset(w, nv) |-> "none"],
                 cnt |-> [o2 \in 0..TagOffset(w, nv) |-> 0],
                 dst |-> [c \in WCells(d, nv) |-> "none"]]

\* one iteration of the TeamThreadRange of the pack kernel with its inner
\* ThreadVectorRange over i
LayPackRow ==
  /\ lay.phase = "pack"
  /\ lay.row < lay.Nv * Nk(lay.w) * Nj(lay.w)
  /\ LET r == RowOf(lay.w, lay.Nv, lay.row)
         offs == [i \in lay.w.si..lay.w.ei |-> PackOffset(lay.w, lay.Nv, r.v, r.k, r.j, i)]
         hit(o) == {i \in lay.w.si..lay.w.ei : offs[i] = o}
     IN lay' = [lay EXCEPT
                  !.buf = [o \in DOMAIN lay.buf |->
                             IF hit(o) # {} THEN SrcVal(r.v, r.k, r.j, CHOOSE i \in hit(o) : TRUE)
                             ELSE lay.buf[o]],
                  !.cnt = [o \in DOMAIN lay.cnt |-> lay.cnt[o] + Cardinality(hit(o))],
                  !.row = lay.row + 1]
  /\ UNCHANGED <<idx, kern, rcv, forest, snd, tasks, exvars>>

\* after the team barrier the tag element is written
LayPackTag ==
  /\ lay.phase = "pack"
  /\ lay.row = lay.Nv * Nk(lay.w) * Nj(lay.w)
  /\ lay' = [lay EXCEPT !.buf[TagOffset(lay.w, lay.Nv)] = "tag",
                        !.phase = "set", !.row = 0]
  /\ UNCHANGED <<idx, kern, rcv, forest, snd, tasks, exvars>>

\* one iteration of the TeamThreadRange of the unpack kernel (read_buffer true)
LaySetRow ==
  /\ lay.phase = "set"
  /\ lay.row < lay.Nv * Nk(lay.d) * Nj(lay.d)
  /\ LET r == RowOf(lay.d, lay.Nv, lay.row)
     IN lay' = [lay EXCEPT
                  !.dst = [c \in DOMAIN lay.dst |->
                             IF c[1] = r.v /\ c[2] = r.k /\ c[3] = r.j
                             THEN lay.buf[SetOffset(lay.d, lay.Nv, r.v, r.k, r.j, c[4])]
                             ELSE lay.dst[c]],
                  !.row = lay.row + 1]
  /\ UNCHANGED <<idx, kern, rcv, forest, snd, tasks, exvars>>

LayDone ==
  /\ lay.phase = "set"
  /\ lay.row = lay.Nv * Nk(lay.d) * Nj(lay.d)
  /\ lay' = [lay EXCEPT !.phase = "done"]
  /\ UNCHANGED <<idx, kern, rcv, forest, snd, tasks, exvars>>

LayNext == LayPackRow \/ LayPackTag \/ LaySetRow \/ LayDone

SpecLayout == LayInit /\ [][LayNext]_vars

-----------------------------------------------------------------------------
(* The pack kernel of SendBoundaryBuffers on one cache entry: a team of     *)
(* threads, each running the body of the team lambda                       *)

\* Globals::sparse_config.allocation_threshold
Threshold == 1

Abs(x) == IF x < 0 THEN -x ELSE x

\* std::abs(val) > threshold
IsNonzero_AtLeast(val) == Abs(val) >= Threshold

IsNonzero_NegativeThreshold(val) == Abs(val) > -1

IsNonzero(val) == Abs(val) > Threshold

\* cell values: zero, a value equal to the threshold, values above it
KernVals == {0, 1, -2}

KThreads == 0..(kern.T - 1)

KernInit ==
  /\ idx = Unused /\ lay = Unused /\ rcv = Unused /\ forest = Unused /\ ExUnused
  /\ snd = Unused /\ tasks = Unused
  /\ \E R \in 1..MaxRows, T \in 1..MaxTeam, alloc \in BOOLEAN, stale \in BOOLEAN :
     \E vals \in [0..(R - 1) -> KernVals] :
       kern = [R |-> R, T |-> T, src_allocated |-> alloc, var |-> vals,
               flag |-> stale,
               tpc |-> [t \in 0..(T - 1) |-> "start"],
               row |-> [t \in 0..(T - 1) |-> t],
               buf |-> [o \in 0..R |-> 0]]

\* sending_nonzero_flags(b) = false: every thread of the team runs this store
KernStoreFalse(t) ==
  /\ kern.tpc[t] = "start"
  /\ kern' = [kern EXCEPT !.flag = FALSE, !.tpc[t] = "loop"]
  /\ UNCHANGED <<idx, lay, rcv, forest, snd, tasks, exvars>>

\* one iteration of the TeamThreadRange run by thread t (rows t, t + T, ...),
\* with its ThreadVectorRange: pack the value, store true if it is non-zero
KernPackRow(t) ==
  /\ kern.tpc[t] = "loop"
  /\ kern.row[t] < kern.R
  /\ LET val == IF kern.src_allocated THEN kern.var[kern.row[t]] ELSE 0
     IN kern' = [kern EXCEPT !.buf[kern.row[t]] = val,
                             !.flag = IF IsNonzero(val) THEN TRUE ELSE kern.flag,
                             !.row[t] = kern.row[t] + kern.T]
  /\ UNCHANGED <<idx, lay, rcv, forest, snd, tasks, exvars>>

\* thread t has no iteration left and waits in team_barrier()
KernBarrier(t) ==
  /\ kern.tpc[t] = "loop"
  /\ kern.row[t] >= kern.R
  /\ kern' = [kern EXCEPT !.tpc[t] = "barrier"]
  /\ UNCHANGED <<idx, lay, rcv, forest, snd, tasks, exvars>>

\* all threads have reached the barrier; team rank 0 writes the tag element
KernTag ==
  /\ \A t \in KThreads : kern.tpc[t] = "barrier"
  /\ kern' = [kern EXCEPT !.buf[kern.R] = IF kern.flag THEN 1 ELSE 0,
                          !.tpc = [t \in KThreads |-> "done"]]
  /\ UNCHANGED <<idx, lay, rcv, forest, snd, tasks, exvars>>

KernStoreFalseStep == \E t \in KThreads : KernStoreFalse(t)
KernPackRowStep == \E t \in KThreads : KernPackRow(t)
KernBarrierStep == \E t \in KThreads : KernBarrier(t)

KernNext == KernStoreFalseStep \/ KernPackRowStep \/ KernBarrierStep \/ KernTag

SpecKern == KernInit /\ [][KernNext]_vars

-----------------------------------------------------------------------------
(* Claims about the index windows (SpecIdx) *)

AxisI(w) == [s |-> w.si, e |-> w.ei]
AxisJ(w) == [s |-> w.sj, e |-> w.ej]
AxisK(w) == [s |-> w.sk, e |-> w.ek]
RLen(r) == r.e - r.s + 1

\* same level, one axis: b is the interior range of both blocks, ox the sender's
\* offset, l the load window and t the set window of the receiver (offset -ox)
SameAxisSymmetric(ox, b, ng, l, t) ==
  RLen(b) >= ng =>
    /\ RLen(l) = RLen(t)
    /\ t.s = l.s - ox * RLen(b)
    /\ t.e = l.e - ox * RLen(b)
    /\ ox = 0 => l = b /\ t = b
    /\ ox # 0 => RLen(l) = ng
    /\ ox > 0 => l.e = b.e /\ t.e = b.s - 1
    /\ ox < 0 => l.s = b.s /\ t.s = b.e + 1

\* C7: same level: on every axis the load window of the sender (offset ox) and the
\* set window of an equally sized receiver (offset -ox) have the same number of
\* cells, and the set window is the load window shifted by -ox * (e - s + 1)
C7_SymmetricWindowsSame ==
  (IdxBoth /\ idx.nb.level = idx.pmb.level) =>
    LET cb == cellbounds(idx.pmb) IN
    /\ SameAxisSymmetric(idx.nb.ox1, cb.i, idx.pmb.ng, AxisI(idx.load), AxisI(idx.set))
    /\ SameAxisSymmetric(idx.nb.ox2, cb.j, idx.pmb.ng, AxisJ(idx.load), AxisJ(idx.set))
    /\ SameAxisSymmetric(idx.nb.ox3, cb.k, idx.pmb.ng, AxisK(idx.load), AxisK(idx.set))

C7_Witness ==
  /\ IdxBoth /\ idx.nb.level = idx.pmb.level
  /\ idx.pmb.nx1 = 4 /\ idx.pmb.nx2 = 2 /\ idx.pmb.ng = 2
  /\ idx.nb.ox1 = 1 /\ idx.nb.ox2 = 0
  /\ AxisI(idx.load) = [s |-> 4, e |-> 5]
  /\ AxisI(idx.set) = [s |-> 0, e |-> 1]
  /\ AxisJ(idx.load) = [s |-> 2, e |-> 3] /\ AxisJ(idx.set) = [s |-> 2, e |-> 3]

\* C8: fine sender, coarse receiver: the sender's window (CalcIndicesLoadSame on
\* c_cellbounds) and the receiver's window (CalcIndicesSetFromFiner, negated
\* offsets) have equal cell counts on every axis, hence the same tag offset
C8_CountsToCoarser ==
  (IdxBoth /\ idx.nb.level < idx.pmb.level) =>
    /\ Ni(idx.load) = Ni(idx.set)
    /\ Nj(idx.load) = Nj(idx.set)
    /\ Nk(idx.load) = Nk(idx.set)
    /\ Nk(idx.load) * Nj(idx.load) * Ni(idx.load)
         = Nk(idx.set) * Nj(idx.set) * Ni(idx.set)

C8_Witness ==
  /\ IdxBoth /\ idx.nb.level < idx.pmb.level
  /\ idx.pmb.nx1 = 4 /\ idx.pmb.nx2 = 2 /\ idx.pmb.nx3 = 1 /\ idx.pmb.ng = 2
  /\ idx.nb.ox1 = 0 /\ idx.nb.ox2 = -1 /\ idx.nb.fi1 = 1
  /\ Ni(idx.set) = 2 /\ Nj(idx.set) = 2 /\ Nk(idx.set) = 1
  /\ idx.set.si = 4

\* the fi1/fi2 that selects the half along each axis (both calculators: x1 by fi1,
\* x2 by fi1 if ox1 # 0, x3 by fi1 if ox1 # 0 and ox2 # 0, else fi2)
Fi1Of(nb) == nb.fi1
Fi2Of(nb) == IF nb.ox1 # 0 THEN nb.fi1 ELSE nb.fi2
Fi3Of(nb) == IF nb.ox1 # 0 /\ nb.ox2 # 0 THEN nb.fi1 ELSE nb.fi2

\* coarse sender to fine receiver, one axis: b the sender's interior range, cb the
\* receiver's coarse interior range, include the receiver's include_dim
FinerAxisAgree(ox, b, cb, nx, fi, lx, include, cng, l, t) ==
  /\ RLen(l) = RLen(t)
  /\ ox # 0 => RLen(l) = cng
  /\ (ox = 0 /\ include) =>
       /\ RLen(l) = nx \div 2 + cng
       /\ l.s - (b.s + fi * (nx \div 2)) = t.s - cb.s
       /\ l.e - (b.s + fi * (nx \div 2)) = t.e - cb.s
       /\ lx % 2 = 0 => t = [s |-> cb.s, e |-> cb.e + cng] /\ l.s = b.s
       /\ lx % 2 = 1 => t = [s |-> cb.s - cng, e |-> cb.e] /\ l.e = b.e
  /\ (ox = 0 /\ ~include) => t = cb

\* the fi selecting each zero-offset axis equals the parity of the fine block's lx
FiMatchesParity ==
  /\ idx.nb.ox1 = 0 => Fi1Of(idx.nb) = idx.rpmb.lx1 % 2
  /\ (idx.nb.ox2 = 0 /\ idx.pmb.nx2 > 1) => Fi2Of(idx.nb) = idx.rpmb.lx2 % 2
  /\ (idx.nb.ox3 = 0 /\ idx.pmb.nx3 > 1) => Fi3Of(idx.nb) = idx.rpmb.lx3 % 2

\* C9: coarse sender, fine receiver: when the selecting fi equals the parity of
\* lx, CalcIndicesLoadToFiner and CalcIndicesSetFromCoarser have equal cell counts
\* on every axis and extend the half interval by cnghost on the same side
C9_WindowsToFiner ==
  (IdxBoth /\ idx.nb.level > idx.pmb.level /\ FiMatchesParity) =>
    LET b == cellbounds(idx.pmb)
        cb == c_cellbounds(idx.rpmb)
    IN
    /\ FinerAxisAgree(idx.nb.ox1, b.i, cb.i, idx.pmb.nx1, Fi1Of(idx.nb),
                      idx.rpmb.lx1, TRUE, idx.pmb.cng,
                      AxisI(idx.load), AxisI(idx.set))
    /\ FinerAxisAgree(idx.nb.ox2, b.j, cb.j, idx.pmb.nx2, Fi2Of(idx.nb),
                      idx.rpmb.lx2, idx.pmb.nx2 > 1, idx.pmb.cng,
                      AxisJ(idx.load), AxisJ(idx.set))
    /\ FinerAxisAgree(idx.nb.ox3, b.k, cb.k, idx.pmb.nx3, Fi3Of(idx.nb),
                      idx.rpmb.lx3, idx.pmb.nx3 > 1, idx.pmb.cng,
                      AxisK(idx.load), AxisK(idx.set))

C9_Witness ==
  /\ IdxBoth /\ idx.nb.level > idx.pmb.level /\ FiMatchesParity
  /\ idx.pmb.nx1 = 4 /\ idx.pmb.nx2 = 4 /\ idx.pmb.nx3 = 1
  /\ idx.pmb.ng = 2 /\ idx.pmb.cng = 2
  /\ idx.nb.ox1 = 1 /\ idx.nb.ox2 = 0 /\ idx.nb.fi1 = 1 /\ idx.rpmb.lx2 = 1
  /\ AxisI(idx.load) = [s |-> 4, e |-> 5]
  /\ AxisJ(idx.load) = [s |-> 2, e |-> 5]
  /\ AxisJ(idx.set) = [s |-> 0, e |-> 3]
  /\ AxisK(idx.set) = [s |-> 0, e |-> 0]

-----------------------------------------------------------------------------
(* Claims about the buffer layout (SpecLayout) *)

\* (v,k,j,i) precedes (v2,k2,j2,i2) with i running fastest, then j, then k, then v
Precedes(c, c2) ==
  \/ c[1] < c2[1]
  \/ c[1] = c2[1] /\ c[2] < c2[2]
  \/ c[1] = c2[1] /\ c[2] = c2[2] /\ c[3] < c2[3]
  \/ c[1] = c2[1] /\ c[2] = c2[2] /\ c[3] = c2[3] /\ c[4] < c2[4]

LayPacked == lay # Unused /\ lay.phase \in {"set", "done"}

\* C6: the pack kernel stores every cell of the window exactly once, the cells
\* fill offsets 0..N-1 in the order i fastest, then j, k, v, the tag slot N is
\* not hit, and unpacking into a window of equal extents reproduces every value
C6_LayoutRoundTrip ==
  /\ LayPacked =>
       LET N == TagOffset(lay.w, lay.Nv) IN
       /\ N = Cardinality(WCells(lay.w, lay.Nv))
       /\ \A o \in 0..(N - 1) : lay.cnt[o] = 1 /\ lay.buf[o] \in WCells(lay.w, lay.Nv)
       /\ lay.cnt[N] = 0 /\ lay.buf[N] = "tag"
       /\ \A o1, o2 \in 0..(N - 1) : o1 < o2 => Precedes(lay.buf[o1], lay.buf[o2])
  /\ (lay # Unused /\ lay.phase = "done") =>
       \A c \in WCells(lay.w, lay.Nv) :
         lay.dst[<<c[1], c[2] + (lay.d.sk - lay.w.sk), c[3] + (lay.d.sj - lay.w.sj),
                   c[4] + (lay.d.si - lay.w.si)>>] = SrcVal(c[1], c[2], c[3], c[4])

C6_Witness ==
  /\ lay # Unused /\ lay.phase = "done"
  /\ lay.Nv = 2 /\ Ni(lay.w) = 2 /\ Nj(lay.w) = 1 /\ Nk(lay.w) = 2
  /\ lay.w.si = 1 /\ lay.d.si = 3 /\ lay.w.sk = 0 /\ lay.d.sk = 2
  /\ lay.buf[5] = <<1, 0, lay.w.sj, 2>>
  /\ lay.dst[<<1, 2, lay.d.sj, 4>>] = <<1, 0, lay.w.sj, 2>>

-----------------------------------------------------------------------------
(* Claims about the pack kernel (SpecKern) *)

KernDone == kern # Unused /\ \A t \in KThreads : kern.tpc[t] = "done"

\* C5: for every interleaving of the team's threads the tag element is 1.0 iff at
\* least one packed cell of the entry has |val| > threshold, and 0.0 otherwise
C5_TagIffNonzero ==
  KernDone =>
    (kern.buf[kern.R] = 1 <=> \E r \in 0..(kern.R - 1) : IsNonzero(kern.buf[r]))

-----------------------------------------------------------------------------
(* The exchange of one sparse cell-centered variable between the blocks of *)
(* one rank: the task list update -> SendBoundaryBuffers ->                *)
(* ReceiveBoundaryBuffers -> SetBoundaries -> SparseDealloc of every       *)
(* MeshData partition, the partitions interleaving task by task            *)

my_rank == 0

\* mesh "pair": two blocks in a row along x1, all at level 0: block 1 has block 2
\* at ox1 = +1. Mesh "row": four blocks in a periodic row along x1, all at
\* level 0, block g + 1 at ox1 = +1 of block g and block 1 at ox1 = +1 of block 4.
\* Mesh "mixed": three blocks in a row along x1, all at level 0, the blocks 1
\* and 2 on this rank and block 3, at ox1 = +1 of block 2, on the rank 1
Gids == IF setup.mesh = "row" THEN {1, 2, 3, 4} ELSE {1, 2}

ExGeom ==
  IF setup.mesh = "row"
  THEN [nx1 |-> 4, nx2 |-> 4, nx3 |-> 1, ng |-> 2, cng |-> 2, Nv |-> 1]
  ELSE [nx1 |-> 2, nx2 |-> 1, nx3 |-> 1, ng |-> 2, cng |-> 2, Nv |-> 2]

BlockOf(g) == MkBlock(ExGeom, ExGeom.ng, ExGeom.cng, 0, g - 1, 0, 0)

\* the buffer a block uses for its neighbor at offset ox1
BufferId(ox1) == IF ox1 < 0 THEN 0 ELSE 1

NeighborBlock(gid, ox1) ==
  [gid |-> gid, rank |-> my_rank, level |-> 0, ox1 |-> ox1, ox2 |-> 0, ox3 |-> 0,
   fi1 |-> 0, fi2 |-> 0, bufid |-> BufferId(ox1), targetid |-> BufferId(-ox1)]

RemoteNeighborBlock(gid, ox1) == [NeighborBlock(gid, ox1) EXCEPT !.rank = my_rank + 1]

\* pmb->pbval->neighbor[0 .. nneighbor-1]
NeighborsOf(g) ==
  IF setup.mesh = "row"
  THEN <<NeighborBlock(((g + 2) % 4) + 1, -1), NeighborBlock((g % 4) + 1, 1)>>
  ELSE IF g = 1 THEN <<NeighborBlock(2, 1)>>
  ELSE IF setup.mesh = "mixed" THEN <<NeighborBlock(1, -1), RemoteNeighborBlock(3, 1)>>
  ELSE <<NeighborBlock(1, -1)>>

BufIds(g) == {NeighborsOf(g)[n].bufid : n \in 1..Len(NeighborsOf(g))}

\* the MeshData partitions: pack_size blocks each
MDs == 1..(Cardinality(Gids) \div pack_size)

MDBlocks(p) == [k \in 1..pack_size |-> (p - 1) * pack_size + k]

BlocksIn(p) == {MDBlocks(p)[k] : k \in 1..Len(MDBlocks(p))}

MdOf(g) == CHOOSE p \in MDs : g \in BlocksIn(p)

\* the nested loops block -> variable -> neighbor of every routine, as the
\* sequence of the (block, n) they visit
RECURSIVE TriplesFrom(_, _)
TriplesFrom(bs, k) ==
  IF k > Len(bs) THEN <<>>
  ELSE [n \in 1..Len(NeighborsOf(bs[k])) |-> <<bs[k], n>>] \o TriplesFrom(bs, k + 1)

Triples(p) == TriplesFrom(MDBlocks(p), 1)

\* the cells of a block's array, ghost cells included
Cells ==
  {<<v, 0, j, i>> : v \in 0..(ExGeom.Nv - 1),
                    j \in (IF ExGeom.nx2 > 1 THEN 0..(ExGeom.nx2 + 2 * ExGeom.ng - 1) ELSE {0}),
                    i \in 0..(ExGeom.nx1 + 2 * ExGeom.ng - 1)}

InteriorCells ==
  LET cb == cellbounds(BlockOf(1))
  IN WCells(Window(cb.i.s, cb.i.e, cb.j.s, cb.j.e, cb.k.s, cb.k.e), ExGeom.Nv)

ZeroData == [c \in Cells |-> 0]

\* a buffer holds the largest window of the block and the tag element
BufSlots == 0..(ExGeom.Nv * ExGeom.ng * ExGeom.nx2 * ExGeom.nx3)

ZeroBuf == [o \in BufSlots |-> 0]

\* what the update task may leave in the interior of a block
Fills == setup.fills

\* "small" is the threshold in every cell; "big" is above it in one cell only;
\* "full" is above it in every cell, with a value of its own in every cell of a
\* row along x1; "one" is one value above it in every cell
FillValue(f, c) ==
  CASE f = "zero" -> 0
    [] f = "small" -> Threshold
    [] f = "full" -> 2 + c[1] + ExGeom.Nv * (c[4] - ExGeom.ng)
    [] f = "one" -> 2
    [] OTHER -> IF c[1] = ExGeom.Nv - 1 /\ c[4] = ExGeom.ng + 1 THEN -2 ELSE 0

\* BndInfo as the BufferCache_t constructor leaves it: zero indices
DefaultWindow == Window(0, 0, 0, 0, 0, 0)

NoCache == [none |-> TRUE]

Idle == [md |-> 0, at |-> "idle", pos |-> 0, b |-> 0]

\* the history of an exchange: the senders that called AllocateSparse, what
\* every block packed, the caches rebuilt, the allocation of every block when
\* its update task was through, the blocks deallocated after Set, and the
\* block deallocated after the exchange before if that exchange ran with every
\* block allocated and no other block was deallocated after it, and the data
\* and allocation the exchange before left if this exchange follows it
\* with nothing in between, and the MPI sends started, each as its (block, bufid)
NoHist(pre) ==
  [allocCalls |-> {}, sent |-> [g \in Gids |-> "none"], rebuilt |-> {}, preAlloc |-> pre,
   dealloc |-> {}, reset |-> {}, first |-> NoCache, mpi |-> <<>>]

ExInitOf(su) ==
  /\ idx = Unused /\ lay = Unused /\ kern = Unused /\ rcv = Unused /\ forest = Unused
  /\ snd = Unused /\ tasks = Unused
  /\ setup = su
  /\ sparse_enabled \in BOOLEAN
  /\ pack_size \in {1, 2}
  /\ ncycle = 0
  /\ allocated \in [Gids -> BOOLEAN]
  /\ sparse_enabled \/ \A g \in Gids : allocated[g]
  /\ data = [g \in Gids |-> ZeroData]
  /\ send = [g \in Gids |-> [o \in BufIds(g) |-> ZeroBuf]]
  /\ recv = [g \in Gids |-> [o \in BufIds(g) |-> ZeroBuf]]
  /\ sflag = [g \in Gids |-> [o \in BufIds(g) |-> "waiting"]]
  /\ flag = [g \in Gids |-> [o \in BufIds(g) |-> "waiting"]]
  /\ lna = [g \in Gids |-> [n \in 1..Len(NeighborsOf(g)) |-> FALSE]]
  /\ sendCache = [p \in MDs |-> NoCache]
  /\ setCache = [p \in MDs |-> NoCache]
  /\ pc = [p \in MDs |-> "update"]
  /\ cur = Idle
  /\ err = "none"
  /\ hist = NoHist(allocated)

ExInit == ExInitOf([mesh |-> "pair", fills |-> {"zero", "small", "big"}])

\* the same exchange with interiors that are zero or above the threshold in
\* every cell
FullInit == ExInitOf([mesh |-> "pair", fills |-> {"zero", "full"}])

\* the update task of partition p, and whatever allocates a sparse variable
\* outside the exchange: an allocated block gets a new interior, an
\* unallocated one stays as it is or is allocated and filled
Update(p) ==
  /\ err = "none" /\ cur = Idle /\ pc[p] = "update"
  /\ \E ch \in [BlocksIn(p) -> Fills \cup {"keep"}] :
       /\ \A g \in BlocksIn(p) : allocated[g] => ch[g] # "keep"
       /\ allocated' = [g \in Gids |->
                          IF g \in BlocksIn(p) /\ ch[g] # "keep" THEN TRUE ELSE allocated[g]]
       /\ data' = [g \in Gids |->
                     IF g \in BlocksIn(p) /\ ch[g] # "keep"
                     THEN [c \in Cells |->
                             IF c \in InteriorCells THEN FillValue(ch[g], c) ELSE data[g][c]]
                     ELSE data[g]]
  /\ hist' = [hist EXCEPT !.preAlloc =
                [g \in Gids |-> IF g \in BlocksIn(p) THEN allocated'[g] ELSE @[g]]]
  /\ pc' = [pc EXCEPT ![p] = "send"]
  /\ UNCHANGED <<idx, lay, kern, rcv, forest, snd, tasks,
                 setup, sparse_enabled, pack_size, ncycle, send, recv, sflag, flag, lna,
                 sendCache, setCache, cur, err>>

\* SetLocalNeighborAllcoated: whether each neighbor on this rank has the variable
LocalNeighborAllocated(g) ==
  [n \in 1..Len(NeighborsOf(g)) |->
     NeighborsOf(g)[n].rank = my_rank /\ allocated[NeighborsOf(g)[n].gid]]

\* the entries ResetSendBuffers, ResetSendBufferBoundaryInfo and SendAndNotify
\* count: the triples whose send flag is not completed
SendEntries_NeighborsFirst(p, sf) ==
  LET es == SelectSeq(Triples(p), LAMBDA t : sf[t[1]][NeighborsOf(t[1])[t[2]].bufid] # "completed")
  IN [e \in 1..Len(es) |-> es[Len(es) + 1 - e]]

SendEntries(p, sf) ==
  SelectSeq(Triples(p), LAMBDA t : sf[t[1]][NeighborsOf(t[1])[t[2]].bufid] # "completed")

\* ResetSendBuffers: the allocation status of every send entry
ResetSendBuffers(p, sf) ==
  [e \in 1..Len(SendEntries(p, sf)) |-> allocated[SendEntries(p, sf)[e][1]]]

\* the staleness test of SendBoundaryBuffers and of SetBoundaries
NeedRebuild_OnlyFirst(have_cache, alloc_status, cached_status) == ~have_cache

NeedRebuild(have_cache, alloc_status, cached_status) ==
  ~have_cache \/ alloc_status # cached_status

\* one entry of send_boundary_info
SendInfo(g, n, l) ==
  LET nb == NeighborsOf(g)[n]
  IN [var |-> g,
      allocated |-> allocated[g],
      Nv |-> ExGeom.Nv,
      w |-> IF allocated[g] THEN SendWindow(nb, BlockOf(g)) ELSE DefaultWindow,
      restriction |-> allocated[g] /\ nb.level < BlockOf(g).level,
      buf |-> IF nb.rank = my_rank /\ l[g][n]
              THEN <<"recv", nb.gid, nb.targetid>>
              ELSE <<"send", g, nb.bufid>>]

\* ResetSendBufferBoundaryInfo: the cache, the status it is built for and the
\* nonzero flags
ResetSendBufferBoundaryInfo(p, sf, l, alloc_status) ==
  LET es == SendEntries(p, sf)
  IN [info |-> [e \in 1..Len(es) |-> SendInfo(es[e][1], es[e][2], l)],
      alloc_status |-> alloc_status,
      nonzero |-> [e \in 1..Len(es) |-> FALSE]]

\* the check of ResetSendBufferBoundaryInfo at each entry it fills:
\* alloc_status[b] against v->IsAllocated()
AllocStatusMismatch(p, sf, alloc_status) ==
  LET es == SendEntries(p, sf)
  IN \E e \in 1..Len(es) : e > Len(alloc_status) \/ alloc_status[e] # allocated[es[e][1]]

\* SendBoundaryBuffers up to the launch of the pack kernel
SendBegin(p) ==
  /\ err = "none" /\ cur = Idle /\ pc[p] = "send"
  /\ LET l == [g \in Gids |-> IF g \in BlocksIn(p) THEN LocalNeighborAllocated(g) ELSE lna[g]]
         sf == [g \in Gids |->
                  IF g \in BlocksIn(p) THEN [o \in BufIds(g) |-> "waiting"] ELSE sflag[g]]
         alloc_status == ResetSendBuffers(p, sf)
         have_cache == sendCache[p] # NoCache
         cached == IF have_cache THEN sendCache[p].alloc_status ELSE <<>>
         mismatch == NeedRebuild(have_cache, alloc_status, cached)
                       /\ AllocStatusMismatch(p, sf, alloc_status)
     IN /\ lna' = l
        /\ sflag' = sf
        /\ err' = IF mismatch THEN "alloc status mismatch" ELSE err
        /\ sendCache' =
             [sendCache EXCEPT ![p] =
                IF NeedRebuild(have_cache, alloc_status, cached) /\ ~mismatch
                THEN ResetSendBufferBoundaryInfo(p, sf, l, alloc_status)
                ELSE @]
  /\ hist' = [hist EXCEPT !.rebuilt =
                IF sendCache'[p] # sendCache[p] THEN @ \cup {<<"send", p>>} ELSE @]
  /\ cur' = [md |-> p, at |-> "pack", pos |-> 0, b |-> 0]
  /\ UNCHANGED <<idx, lay, kern, rcv, forest, snd, tasks,
                 setup, sparse_enabled, pack_size, ncycle, allocated, data, send, recv,
                 flag, setCache, pc>>

\* the value the pack kernel writes for cell c of an entry
PackVal(info, c) == IF info.allocated THEN data[info.var][c] ELSE 0

\* sending_nonzero_flags(b) after the kernel: every thread of the team stores
\* false before its rows, with no barrier between that store and the rows of
\* the other threads, so a true may be overwritten
PackFlagOutcomes(info) ==
  IF \E c \in WCells(info.w, info.Nv) : IsNonzero(PackVal(info, c))
  THEN {TRUE, FALSE}
  ELSE {FALSE}

\* the buffer of an entry after the pack kernel
Packed(info, old, nz) ==
  [o \in BufSlots |->
     IF \E c \in WCells(info.w, info.Nv) : PackOffset(info.w, info.Nv, c[1], c[2], c[3], c[4]) = o
     THEN LET c == CHOOSE d \in WCells(info.w, info.Nv) :
                     PackOffset(info.w, info.Nv, d[1], d[2], d[3], d[4]) = o
          IN PackVal(info, c)
     ELSE IF o = TagOffset(info.w, info.Nv) THEN (IF nz THEN 1 ELSE 0)
     ELSE old[o]]

BufOf(ref) == IF ref[1] = "send" THEN send[ref[2]][ref[3]] ELSE recv[ref[2]][ref[3]]

\* what the packed values of a block are, by the block's data and its window
SentClass(g, n) ==
  LET cs == WCells(SendWindow(NeighborsOf(g)[n], BlockOf(g)), ExGeom.Nv)
  IN IF ~allocated[g] \/ \A c \in cs : data[g][c] = 0 THEN "zero"
     ELSE IF \A c \in cs : Abs(data[g][c]) <= Threshold THEN "small"
     ELSE "big"

\* the pack kernel of SendBoundaryBuffers, one team per cache entry
PackKernel(p) ==
  /\ err = "none" /\ cur.md = p /\ cur.at = "pack"
  /\ LET info == sendCache[p].info
         L == Len(sendCache[p].alloc_status)
     IN \E nz \in [1..L -> BOOLEAN] :
          /\ \A e \in 1..L : nz[e] \in PackFlagOutcomes(info[e])
          /\ send' = [g \in Gids |-> [o \in BufIds(g) |->
                        IF \E e \in 1..L : info[e].buf = <<"send", g, o>>
                        THEN LET e == CHOOSE x \in 1..L : info[x].buf = <<"send", g, o>>
                             IN Packed(info[e], send[g][o], nz[e])
                        ELSE send[g][o]]]
          /\ recv' = [g \in Gids |-> [o \in BufIds(g) |->
                        IF \E e \in 1..L : info[e].buf = <<"recv", g, o>>
                        THEN LET e == CHOOSE x \in 1..L : info[x].buf = <<"recv", g, o>>
                             IN Packed(info[e], recv[g][o], nz[e])
                        ELSE recv[g][o]]]
          /\ sendCache' = [sendCache EXCEPT ![p].nonzero = nz]
  /\ hist' = [hist EXCEPT !.sent =
                [g \in Gids |-> IF g \in BlocksIn(p) THEN SentClass(g, 1) ELSE @[g]]]
  /\ cur' = [md |-> p, at |-> "notify", pos |-> 1, b |-> 1]
  /\ UNCHANGED <<idx, lay, kern, rcv, forest, snd, tasks,
                 setup, sparse_enabled, pack_size, ncycle, allocated, data, sflag, flag,
                 lna, setCache, pc, err>>

\* SendAndNotify: an entry is delivered on this rank or by MPI
Delivery_AlwaysMpi(nb) == "mpi"

Delivery(nb) == IF nb.rank = my_rank THEN "local" ELSE "mpi"

\* SendAndNotify at one (block, n) of its loops: skip it, start the MPI send,
\* or allocate the variable on the neighbor that needs it
NotifyVisit(p) ==
  /\ err = "none" /\ cur.md = p /\ cur.at = "notify" /\ cur.pos <= Len(Triples(p))
  /\ LET g == Triples(p)[cur.pos][1]
         n == Triples(p)[cur.pos][2]
         nb == NeighborsOf(g)[n]
         new_neighbor_alloc ==
           sparse_enabled /\ ~lna[g][n] /\ sendCache[p].nonzero[cur.b]
     IN IF sflag[g][nb.bufid] = "completed" THEN
          /\ cur' = [cur EXCEPT !.pos = @ + 1]
          /\ UNCHANGED <<allocated, sflag, err, hist>>
        ELSE IF Delivery(nb) = "mpi" THEN
          /\ hist' = [hist EXCEPT !.mpi = Append(@, <<g, nb.bufid>>)]
          /\ sflag' = [sflag EXCEPT ![g][nb.bufid] = "completed"]
          /\ cur' = [cur EXCEPT !.pos = @ + 1, !.b = @ + 1]
          /\ UNCHANGED <<allocated, err>>
        ELSE IF new_neighbor_alloc THEN
          IF ~allocated[g] THEN
            /\ err' = "source variable not allocated"
            /\ UNCHANGED <<allocated, sflag, cur, hist>>
          ELSE
            /\ allocated' = [allocated EXCEPT ![nb.gid] = TRUE]
            /\ hist' = [hist EXCEPT !.allocCalls = @ \cup {g}]
            /\ cur' = [cur EXCEPT !.at = "copy"]
            /\ UNCHANGED <<sflag, err>>
        ELSE
          /\ cur' = [cur EXCEPT !.at = "arrive"]
          /\ UNCHANGED <<allocated, sflag, err, hist>>
  /\ UNCHANGED <<idx, lay, kern, rcv, forest, snd, tasks,
                 setup, sparse_enabled, pack_size, ncycle, data, send, recv, flag, lna,
                 sendCache, setCache, pc>>

\* SendAndNotify: the deep copy of the packed send buffer into the receive
\* buffer of the neighbor that was just allocated
NotifyCopy(p) ==
  /\ err = "none" /\ cur.md = p /\ cur.at = "copy"
  /\ LET g == Triples(p)[cur.pos][1]
         nb == NeighborsOf(g)[Triples(p)[cur.pos][2]]
     IN recv' = [recv EXCEPT ![nb.gid][nb.targetid] = send[g][nb.bufid]]
  /\ cur' = [cur EXCEPT !.at = "arrive"]
  /\ UNCHANGED <<idx, lay, kern, rcv, forest, snd, tasks,
                 setup, sparse_enabled, pack_size, ncycle, allocated, data, send, sflag,
                 flag, lna, sendCache, setCache, pc, err, hist>>

\* SendAndNotify: the neighbor's receive flag is set to arrived and the send
\* flag to completed
NotifyArrive(p) ==
  /\ err = "none" /\ cur.md = p /\ cur.at = "arrive"
  /\ LET g == Triples(p)[cur.pos][1]
         nb == NeighborsOf(g)[Triples(p)[cur.pos][2]]
     IN /\ flag' = [flag EXCEPT ![nb.gid][nb.targetid] = "arrived"]
        /\ sflag' = [sflag EXCEPT ![g][nb.bufid] = "completed"]
  /\ cur' = [cur EXCEPT !.at = "notify", !.pos = @ + 1, !.b = @ + 1]
  /\ UNCHANGED <<idx, lay, kern, rcv, forest, snd, tasks,
                 setup, sparse_enabled, pack_size, ncycle, allocated, data, send, recv,
                 lna, sendCache, setCache, pc, err, hist>>

\* SendBoundaryBuffers returns complete
SendEnd(p) ==
  /\ err = "none" /\ cur.md = p /\ cur.at = "notify" /\ cur.pos > Len(Triples(p))
  /\ cur' = Idle
  /\ pc' = [pc EXCEPT ![p] = "recv"]
  /\ UNCHANGED <<idx, lay, kern, rcv, forest, snd, tasks,
                 setup, sparse_enabled, pack_size, ncycle, allocated, data, send, recv,
                 sflag, flag, lna, sendCache, setCache, err, hist>>

\* rc->ReceiveBoundaryBuffers of one block: every buffer has arrived
BlockReceived(g) == \A o \in BufIds(g) : flag[g][o] = "arrived"

\* ReceiveBoundaryBuffers: complete if every block is, else incomplete and
\* polled again
ReceiveBoundaryBuffers(p) ==
  /\ err = "none" /\ cur = Idle /\ pc[p] = "recv"
  /\ pc' = IF \A g \in BlocksIn(p) : BlockReceived(g) THEN [pc EXCEPT ![p] = "set"] ELSE pc
  /\ UNCHANGED <<idx, lay, kern, rcv, forest, snd, tasks,
                 setup, sparse_enabled, pack_size, ncycle, allocated, data, send, recv,
                 sflag, flag, lna, sendCache, setCache, cur, err, hist>>

\* GetSetFromBufersAllocStatus
GetSetFromBufersAllocStatus(p) ==
  [e \in 1..Len(Triples(p)) |-> allocated[Triples(p)[e][1]]]

\* one entry of set_boundary_info
SetInfo(g, n) ==
  LET nb == NeighborsOf(g)[n]
  IN [var |-> g,
      allocated |-> allocated[g],
      Nv |-> ExGeom.Nv,
      w |-> IF allocated[g] THEN SetWindow(nb, BlockOf(g)) ELSE DefaultWindow,
      buf |-> <<"recv", g, nb.bufid>>]

\* ResetSetFromBufferBoundaryInfo: the cache and the status it is built for
ResetSetFromBufferBoundaryInfo(p, alloc_status) ==
  [info |-> [e \in 1..Len(Triples(p)) |-> SetInfo(Triples(p)[e][1], Triples(p)[e][2])],
   alloc_status |-> alloc_status]

\* SetBoundaries up to the launch of the unpack kernel; a rebuild of the cache
\* marks the receive flags of its entries completed
SetBegin(p) ==
  /\ err = "none" /\ cur = Idle /\ pc[p] = "set"
  /\ LET alloc_status == GetSetFromBufersAllocStatus(p)
         have_cache == setCache[p] # NoCache
         cached == IF have_cache THEN setCache[p].alloc_status ELSE <<>>
     IN IF NeedRebuild(have_cache, alloc_status, cached) THEN
          /\ setCache' = [setCache EXCEPT ![p] = ResetSetFromBufferBoundaryInfo(p, alloc_status)]
          /\ flag' = [g \in Gids |->
                        IF g \in BlocksIn(p) THEN [o \in BufIds(g) |-> "completed"] ELSE flag[g]]
        ELSE UNCHANGED <<setCache, flag>>
  /\ hist' = [hist EXCEPT !.rebuilt =
                IF setCache'[p] # setCache[p] THEN @ \cup {<<"set", p>>} ELSE @]
  /\ cur' = [md |-> p, at |-> "setk", pos |-> 0, b |-> 0]
  /\ UNCHANGED <<idx, lay, kern, rcv, forest, snd, tasks,
                 setup, sparse_enabled, pack_size, ncycle, allocated, data, send, recv,
                 sflag, lna, sendCache, pc, err>>

\* read_buffer of the unpack kernel
ReadBuffer_Always(enabled, nonzero_flag) == TRUE

ReadBuffer(enabled, nonzero_flag) == ~enabled \/ nonzero_flag # 0

\* the value the unpack kernel writes into cell c of an entry
SetVal(info, c) ==
  IF ReadBuffer(sparse_enabled, BufOf(info.buf)[TagOffset(info.w, info.Nv)])
  THEN BufOf(info.buf)[SetOffset(info.w, info.Nv, c[1], c[2], c[3], c[4])]
  ELSE 0

\* the unpack kernel: the entry writes its window if boundary_info(b).allocated
SetsWindow_Unguarded(info) == TRUE

SetsWindow(info) == info.allocated

\* the unpack kernel of SetBoundaries, one team per cache entry; an entry whose
\* variable is not allocated writes nothing
SetKernel(p) ==
  /\ err = "none" /\ cur.md = p /\ cur.at = "setk"
  /\ LET info == setCache[p].info
         L == Len(info)
     IN data' = [g \in Gids |-> [c \in Cells |->
                   IF \E e \in 1..L : /\ info[e].var = g /\ SetsWindow(info[e])
                                      /\ c \in WCells(info[e].w, info[e].Nv)
                   THEN LET e == CHOOSE x \in 1..L : /\ info[x].var = g /\ SetsWindow(info[x])
                                                     /\ c \in WCells(info[x].w, info[x].Nv)
                        IN SetVal(info[e], c)
                   ELSE data[g][c]]]
  /\ cur' = Idle
  /\ pc' = [pc EXCEPT ![p] = "post"]
  /\ UNCHANGED <<idx, lay, kern, rcv, forest, snd, tasks,
                 setup, sparse_enabled, pack_size, ncycle, allocated, send, recv, sflag,
                 flag, lna, sendCache, setCache, err, hist>>

\* the end of the task list: the sweep that may deallocate sparse variables
\* of the partition's blocks
SparseDealloc(p) ==
  /\ err = "none" /\ cur = Idle /\ pc[p] = "post"
  /\ \E D \in SUBSET {g \in BlocksIn(p) : sparse_enabled /\ allocated[g]} :
       /\ allocated' = [g \in Gids |-> IF g \in D THEN FALSE ELSE allocated[g]]
       /\ data' = [g \in Gids |-> IF g \in D THEN ZeroData ELSE data[g]]
       /\ hist' = [hist EXCEPT !.dealloc = @ \cup D]
  /\ pc' = [pc EXCEPT ![p] = "done"]
  /\ UNCHANGED <<idx, lay, kern, rcv, forest, snd, tasks,
                 setup, sparse_enabled, pack_size, ncycle, send, recv, sflag, flag, lna,
                 sendCache, setCache, cur, err>>

\* every partition is through its list: the receive flags go back to waiting
\* and the next stage starts
ClearBoundary ==
  /\ err = "none" /\ cur = Idle /\ \A p \in MDs : pc[p] = "done"
  /\ ncycle + 1 < MaxExchanges
  /\ ncycle' = ncycle + 1
  /\ flag' = [g \in Gids |-> [o \in BufIds(g) |-> "waiting"]]
  /\ pc' = [p \in MDs |-> "update"]
  /\ hist' = [NoHist(hist.preAlloc) EXCEPT
                !.reset = IF (\A g \in Gids : hist.preAlloc[g]) /\ Cardinality(hist.dealloc) = 1
                          THEN hist.dealloc ELSE {}]
  /\ UNCHANGED <<idx, lay, kern, rcv, forest, snd, tasks,
                 setup, sparse_enabled, pack_size, allocated, data, send, recv,
                 sflag, lna, sendCache, setCache, cur, err>>

UpdateStep == \E p \in MDs : Update(p)
SendBeginStep == \E p \in MDs : SendBegin(p)
PackKernelStep == \E p \in MDs : PackKernel(p)
NotifyVisitStep == \E p \in MDs : NotifyVisit(p)
NotifyCopyStep == \E p \in MDs : NotifyCopy(p)
NotifyArriveStep == \E p \in MDs : NotifyArrive(p)
SendEndStep == \E p \in MDs : SendEnd(p)
ReceiveStep == \E p \in MDs : ReceiveBoundaryBuffers(p)
SetBeginStep == \E p \in MDs : SetBegin(p)
SetKernelStep == \E p \in MDs : SetKernel(p)
SparseDeallocStep == \E p \in MDs : SparseDealloc(p)

Next ==
  \/ UpdateStep \/ SendBeginStep \/ PackKernelStep \/ NotifyVisitStep \/ NotifyCopyStep
  \/ NotifyArriveStep \/ SendEndStep \/ ReceiveStep \/ SetBeginStep \/ SetKernelStep
  \/ SparseDeallocStep \/ ClearBoundary

Spec == ExInit /\ [][Next]_vars

SpecFull == FullInit /\ [][Next]_vars

-----------------------------------------------------------------------------
(* One entry of set_boundary_info: the block of the entry and one neighbor, *)
(* the entry ResetSetFromBufferBoundaryInfo makes and the cells the team of *)
(* SetBoundaries writes for it                                             *)

\* boundary_info_h(b).var of an allocated variable
SetDestination_AlwaysData(nb, pmb) == "data"

SetDestination(nb, pmb) == IF nb.level < pmb.level THEN "coarse_buf" ELSE "data"

\* the entry of the set cache; var and the window keep their defaults if the
\* variable is not allocated
SetEntry(nb, pmb, is_allocated) ==
  [allocated |-> is_allocated,
   Nv |-> 1,
   w |-> IF is_allocated THEN SetWindow(nb, pmb) ELSE DefaultWindow,
   var |-> IF is_allocated THEN SetDestination(nb, pmb) ELSE "none"]

\* the block is at level 1, its neighbor at level 0 (coarser), 1 or 2 (finer);
\* fi1 = fi2 = 0 unless the neighbor is finer
SetOneInit ==
  /\ lay = Unused /\ kern = Unused /\ rcv = Unused /\ forest = Unused /\ ExUnused
  /\ snd = Unused /\ tasks = Unused
  /\ \E n \in BlockSizes, ng \in 1..MaxNGhost, cng \in 1..MaxCNGhost, nl \in {0, 1, 2} :
     \E o \in Offsets(n), is_allocated \in BOOLEAN :
     \E fi1 \in (IF nl = 2 THEN {0, 1} ELSE {0}), fi2 \in (IF nl = 2 THEN {0, 1} ELSE {0}) :
     \E lx1 \in (IF nl = 0 THEN {0, 1} ELSE {0}),
        lx2 \in (IF nl = 0 /\ n.nx2 > 1 THEN {0, 1} ELSE {0}),
        lx3 \in (IF nl = 0 /\ n.nx3 > 1 THEN {0, 1} ELSE {0}) :
       idx = [pmb |-> MkBlock(n, ng, cng, 1, lx1, lx2, lx3),
              nb |-> MkNeighbor(nl, o.ox1, o.ox2, o.ox3, fi1, fi2),
              is_allocated |-> is_allocated,
              info |-> NoWin, launched |-> FALSE, written |-> {}]

\* ResetSetFromBufferBoundaryInfo at the entry
SetOneCache ==
  /\ idx.info = NoWin
  /\ idx' = [idx EXCEPT !.info = SetEntry(idx.nb, idx.pmb, idx.is_allocated)]
  /\ UNCHANGED <<lay, kern, rcv, forest, snd, tasks, exvars>>

\* the team of the unpack kernel at the entry: the cells (v, k, j, i) of the
\* window are written into var if the entry is allocated
SetOneKernel ==
  /\ idx.info # NoWin /\ ~idx.launched
  /\ idx' = [idx EXCEPT !.launched = TRUE,
                        !.written = IF SetsWindow(idx.info)
                                    THEN {<<idx.info.var, c>> : c \in WCells(idx.info.w, idx.info.Nv)}
                                    ELSE {}]
  /\ UNCHANGED <<lay, kern, rcv, forest, snd, tasks, exvars>>

SetOneNext == SetOneCache \/ SetOneKernel

SpecSetOne == SetOneInit /\ [][SetOneNext]_vars

\* the send task of every partition of a rank that has a neighbor on another rank
MixedInit == ExInitOf([mesh |-> "mixed", fills |-> {"zero", "big"}])

MixedNext ==
  \/ UpdateStep \/ SendBeginStep \/ PackKernelStep \/ NotifyVisitStep \/ NotifyCopyStep
  \/ NotifyArriveStep \/ SendEndStep

SpecMixed == MixedInit /\ [][MixedNext]_vars

\* Send -> Receive -> Set once more on every partition, with no update task
\* and no deallocation since Set went through on the last partition
Rerun ==
  /\ err = "none" /\ cur = Idle /\ \A p \in MDs : pc[p] = "post"
  /\ hist.first = NoCache
  /\ ncycle + 1 < MaxExchanges
  /\ ncycle' = ncycle + 1
  /\ flag' = [g \in Gids |-> [o \in BufIds(g) |-> "waiting"]]
  /\ pc' = [p \in MDs |-> "send"]
  /\ hist' = [NoHist(allocated) EXCEPT !.first = [data |-> data, allocated |-> allocated]]
  /\ UNCHANGED <<idx, lay, kern, rcv, forest, snd, tasks,
                 setup, sparse_enabled, pack_size, allocated, data, send, recv,
                 sflag, lna, sendCache, setCache, cur, err>>

TwiceInit == ExInitOf([mesh |-> "pair", fills |-> {"zero", "big"}])

TwiceNext == Next \/ Rerun

SpecTwice == TwiceInit /\ [][TwiceNext]_vars

\* the periodic row after its update task: every block allocated, the interior
\* of block 1 filled with one value above the threshold, the other blocks zero
RowInit ==
  /\ idx = Unused /\ lay = Unused /\ kern = Unused /\ rcv = Unused /\ forest = Unused
  /\ snd = Unused /\ tasks = Unused
  /\ setup = [mesh |-> "row", fills |-> {"zero", "one"}]
  /\ sparse_enabled \in BOOLEAN
  /\ pack_size \in {1, 2, 4}
  /\ ncycle = 0
  /\ allocated = [g \in Gids |-> TRUE]
  /\ data = [g \in Gids |->
               [c \in Cells |-> IF g = 1 /\ c \in InteriorCells THEN FillValue("one", c) ELSE 0]]
  /\ send = [g \in Gids |-> [o \in BufIds(g) |-> ZeroBuf]]
  /\ recv = [g \in Gids |-> [o \in BufIds(g) |-> ZeroBuf]]
  /\ sflag = [g \in Gids |-> [o \in BufIds(g) |-> "waiting"]]
  /\ flag = [g \in Gids |-> [o \in BufIds(g) |-> "waiting"]]
  /\ lna = [g \in Gids |-> [n \in 1..Len(NeighborsOf(g)) |-> FALSE]]
  /\ sendCache = [p \in MDs |-> NoCache]
  /\ setCache = [p \in MDs |-> NoCache]
  /\ pc = [p \in MDs |-> "send"]
  /\ cur = Idle
  /\ err = "none"
  /\ hist = NoHist(allocated)

\* one exchange: Send -> Receive -> Set on every partition
RowNext ==
  \/ SendBeginStep \/ PackKernelStep \/ NotifyVisitStep \/ NotifyArriveStep \/ SendEndStep
  \/ ReceiveStep \/ SetBeginStep \/ SetKernelStep

SpecRow == RowInit /\ [][RowNext]_vars

\* two stages of the row: the executor runs the tasks that are ready and calls
\* a task that returned incomplete again; it does not stop while a task of some
\* list can do more than return incomplete
LiveNext == RowNext \/ Rerun

SpecLive ==
  /\ RowInit
  /\ [][LiveNext]_vars
  /\ WF_vars(LiveNext)


-----------------------------------------------------------------------------
(* ReceiveBoundaryBuffers on one MeshData: the task is called again while  *)
(* it returns incomplete; messages arrive and the running time of the task *)
(* grows between and during the calls                                      *)

MaxBlocks == 3        \* md->NumBlocks() ranges over 1..MaxBlocks
MaxTimeout == 2       \* Globals::receive_boundary_buffer_timeout ranges over -1..MaxTimeout
MaxRuntime == 3       \* Globals::current_task_runtime_sec ranges over 0..MaxRuntime

\* ret after the block polled reported complete or incomplete
PollResult_LastWins(ret, complete) == complete

PollResult(ret, complete) == IF ~complete THEN FALSE ELSE ret

\* the test under MPI_PARALLEL: the requirement runtime < timeout fails
TimedOut_Beyond(mpi, timeout, runtime) == mpi /\ timeout > 0 /\ runtime > timeout

TimedOut(mpi, timeout, runtime) == mpi /\ timeout > 0 /\ ~(runtime < timeout)

RecvInit ==
  /\ idx = Unused /\ lay = Unused /\ kern = Unused /\ forest = Unused /\ ExUnused
  /\ snd = Unused /\ tasks = Unused
  /\ \E mpi \in BOOLEAN, timeout \in (-1)..MaxTimeout, n \in 1..MaxBlocks :
       \E arrived \in [1..n -> BOOLEAN] :
         rcv = [mpi |-> mpi, timeout |-> timeout, runtime |-> 0, NumBlocks |-> n,
                arrived |-> arrived, i |-> 0, ret |-> TRUE, report |-> <<>>,
                status |-> "none", read |-> 0]

\* the last buffer of block b arrives
RecvArrive(b) ==
  /\ rcv.status # "failed" /\ ~rcv.arrived[b]
  /\ rcv' = [rcv EXCEPT !.arrived[b] = TRUE]
  /\ UNCHANGED <<idx, lay, kern, forest, snd, tasks, exvars>>

\* the task runner's clock of the task
RecvTick ==
  /\ rcv.status \notin {"complete", "failed"} /\ rcv.runtime < MaxRuntime
  /\ rcv' = [rcv EXCEPT !.runtime = @ + 1]
  /\ UNCHANGED <<idx, lay, kern, forest, snd, tasks, exvars>>

\* the task is called
RecvCall ==
  /\ rcv.status \in {"none", "incomplete"}
  /\ rcv' = [rcv EXCEPT !.i = 1, !.ret = TRUE, !.report = <<>>, !.status = "polling"]
  /\ UNCHANGED <<idx, lay, kern, forest, snd, tasks, exvars>>

\* one turn of the loop over the blocks: rc->ReceiveBoundaryBuffers() of block i
RecvPoll ==
  /\ rcv.status = "polling" /\ rcv.i <= rcv.NumBlocks
  /\ rcv' = [rcv EXCEPT !.ret = PollResult(@, rcv.arrived[rcv.i]),
                        !.report = Append(@, rcv.arrived[rcv.i]),
                        !.i = @ + 1]
  /\ UNCHANGED <<idx, lay, kern, forest, snd, tasks, exvars>>

\* after the loop: complete, the fatal error, or incomplete
RecvReturn ==
  /\ rcv.status = "polling" /\ rcv.i > rcv.NumBlocks
  /\ rcv' = [rcv EXCEPT !.status = IF rcv.ret THEN "complete"
                                   ELSE IF TimedOut(rcv.mpi, rcv.timeout, rcv.runtime)
                                        THEN "failed"
                                        ELSE "incomplete",
                        !.read = rcv.runtime,
                        !.i = 0]
  /\ UNCHANGED <<idx, lay, kern, forest, snd, tasks, exvars>>

RecvArriveStep == \E b \in 1..rcv.NumBlocks : RecvArrive(b)

RecvNext == RecvArriveStep \/ RecvTick \/ RecvCall \/ RecvPoll \/ RecvReturn

SpecRecv == RecvInit /\ [][RecvNext]_vars

-----------------------------------------------------------------------------
(* SendBoundaryBuffers of one MeshData on the host and its pack kernel on   *)
(* the device: the launch is asynchronous, the host goes on to SendAndNotify *)
(* and only a fence, or a blocking deep copy, waits for the kernel          *)

MaxEntries == 2       \* a MeshData has up to MaxEntries send entries

\* the team of entry e has stored its cells and, after its barrier, the tag element
KernelFinished == \A e \in DOMAIN snd.kernel : snd.kernel[e] = "tagged"

\* the entries go to a neighbor on this rank or, in a build with MPI, on another one
FenceInit ==
  /\ idx = Unused /\ lay = Unused /\ kern = Unused /\ rcv = Unused /\ forest = Unused
  /\ tasks = Unused /\ ExUnused
  /\ \E mpi \in BOOLEAN, enabled \in BOOLEAN, n \in 1..MaxEntries :
     \E entries \in [1..n -> {"local", "mpi"}] :
       /\ mpi \/ \A e \in 1..n : entries[e] = "local"
       /\ snd = [mpi |-> mpi, enabled |-> enabled, entries |-> entries,
                 host |-> "launch", pos |-> 0,
                 kernel |-> [e \in 1..n |-> "idle"],
                 notified |-> [e \in 1..n |-> "no"]]

\* Kokkos::parallel_for of the pack kernel: the host launches it and goes on
PackLaunch ==
  /\ snd.host = "launch"
  /\ snd' = [snd EXCEPT !.host = IF snd.mpi THEN "fence" ELSE "notify",
                        !.kernel = [e \in DOMAIN snd.kernel |-> "launched"]]
  /\ UNCHANGED <<idx, lay, kern, rcv, forest, tasks, exvars>>

\* the team of entry e stores the cells of its window into the buffer
PackCells(e) ==
  /\ snd.kernel[e] = "launched"
  /\ snd' = [snd EXCEPT !.kernel[e] = "cells"]
  /\ UNCHANGED <<idx, lay, kern, rcv, forest, tasks, exvars>>

\* the team of entry e stores the tag element after its barrier
PackTag(e) ==
  /\ snd.kernel[e] = "cells"
  /\ snd' = [snd EXCEPT !.kernel[e] = "tagged"]
  /\ UNCHANGED <<idx, lay, kern, rcv, forest, tasks, exvars>>

\* Kokkos::fence() under MPI_PARALLEL: the host waits for the kernel
Fence ==
  /\ snd.host = "fence"
  /\ KernelFinished
  /\ snd' = [snd EXCEPT !.host = "notify"]
  /\ UNCHANGED <<idx, lay, kern, rcv, forest, tasks, exvars>>

\* SendAndNotify up to its loops: with sparse enabled the nonzero flags are
\* copied to the host by a deep copy that waits for the kernel
CopyFlags ==
  /\ snd.host = "notify" /\ snd.pos = 0
  /\ snd.enabled => KernelFinished
  /\ snd' = [snd EXCEPT !.pos = 1]
  /\ UNCHANGED <<idx, lay, kern, rcv, forest, tasks, exvars>>

\* SendAndNotify at one entry: the receive flag of the neighbor on this rank
\* is set to arrived, or the MPI send is started
Notify ==
  /\ snd.host = "notify" /\ snd.pos \in DOMAIN snd.entries
  /\ snd' = [snd EXCEPT !.notified[snd.pos] =
                          IF snd.entries[snd.pos] = "local" THEN "arrived" ELSE "started",
                        !.pos = @ + 1]
  /\ UNCHANGED <<idx, lay, kern, rcv, forest, tasks, exvars>>

\* SendBoundaryBuffers returns complete
SendReturn ==
  /\ snd.host = "notify" /\ snd.pos > Len(snd.entries)
  /\ snd' = [snd EXCEPT !.host = "done"]
  /\ UNCHANGED <<idx, lay, kern, rcv, forest, tasks, exvars>>

PackCellsStep == \E e \in DOMAIN snd.kernel : PackCells(e)
PackTagStep == \E e \in DOMAIN snd.kernel : PackTag(e)

FenceNext ==
  \/ PackLaunch \/ PackCellsStep \/ PackTagStep \/ Fence \/ CopyFlags \/ Notify \/ SendReturn

SpecFence == FenceInit /\ [][FenceNext]_vars

-----------------------------------------------------------------------------
(* Restriction in SendBoundaryBuffers: one block at level 1 with a neighbor *)
(* to the west and one to the east, each coarser, at the same level or      *)
(* finer; the block's variable changes between the calls                    *)

MaxSends == 3         \* SendBoundaryBuffers calls in a row on the MeshData

\* boundary_info_h(b).restriction
RestrictionFlag(nb, pmb, is_allocated) == is_allocated /\ nb.level < pmb.level

\* boundary_info_h(b).var of an allocated variable
SendSource(nb, pmb) == IF nb.level < pmb.level THEN "coarse_buf" ELSE "data"

\* the entry of the send cache; var, the window and restriction keep their
\* defaults if the variable is not allocated
SendEntry(nb, pmb, is_allocated) ==
  [allocated |-> is_allocated,
   w |-> IF is_allocated THEN SendWindow(nb, pmb) ELSE DefaultWindow,
   var |-> IF is_allocated THEN SendSource(nb, pmb) ELSE "none",
   restriction |-> RestrictionFlag(nb, pmb, is_allocated)]

\* cell_centered_refinement::Restrict: the coarse buffer of every entry marked
\* restriction holds the average of the variable as it is now
Restrict(info, coarse) ==
  [e \in DOMAIN coarse |-> IF info[e].restriction THEN "restricted" ELSE coarse[e]]

\* the calls of Restrict on the path SendBoundaryBuffers takes, in order
RestrictCalls_RebuildOnly(rebuild) ==
  IF rebuild THEN <<"ResetSendBufferBoundaryInfo">> ELSE <<>>

RestrictCalls(rebuild) ==
  IF rebuild THEN <<"ResetSendBufferBoundaryInfo">> ELSE <<"SendBoundaryBuffers">>

RECURSIVE RestrictAll(_, _, _)
RestrictAll(calls, info, coarse) ==
  IF calls = <<>> THEN coarse
  ELSE RestrictAll(Tail(calls), info, Restrict(info, coarse))

RestrictInit ==
  /\ idx = Unused /\ lay = Unused /\ kern = Unused /\ rcv = Unused /\ forest = Unused
  /\ tasks = Unused /\ ExUnused
  /\ \E n \in {m \in BlockSizes : m.nx3 = 1}, ng \in 1..MaxNGhost,
        west \in {0, 1, 2}, east \in {0, 1, 2}, is_allocated \in BOOLEAN :
       snd = [pmb |-> MkBlock(n, ng, 1, 1, 0, 0, 0),
              nbs |-> <<MkNeighbor(west, -1, 0, 0, 0, 0), MkNeighbor(east, 1, 0, 0, 0, 0)>>,
              allocated |-> is_allocated,
              cache |-> NoCache,
              coarse |-> <<"stale", "stale">>,
              host |-> "idle", sends |-> 0, rebuilt |-> FALSE,
              log |-> <<>>, read |-> <<>>]

\* SendBoundaryBuffers up to the launch of the pack kernel
RestrictSendBegin ==
  /\ snd.host = "idle"
  /\ LET alloc_status == [e \in DOMAIN snd.nbs |-> snd.allocated]
         have_cache == snd.cache # NoCache
         cached == IF have_cache THEN snd.cache.alloc_status ELSE <<>>
         rebuild == NeedRebuild(have_cache, alloc_status, cached)
         cache == IF rebuild
                  THEN [info |-> [e \in DOMAIN snd.nbs |->
                                    SendEntry(snd.nbs[e], snd.pmb, snd.allocated)],
                        alloc_status |-> alloc_status]
                  ELSE snd.cache
     IN snd' = [snd EXCEPT !.cache = cache,
                           !.rebuilt = rebuild,
                           !.coarse = RestrictAll(RestrictCalls(rebuild), cache.info, @),
                           !.log = [c \in DOMAIN RestrictCalls(rebuild) |-> "restrict"],
                           !.read = <<>>,
                           !.sends = @ + 1,
                           !.host = "pack"]
  /\ UNCHANGED <<idx, lay, kern, rcv, forest, tasks, exvars>>

\* the pack kernel: the team of an entry reads the cells of its window from
\* var, or zeros if the entry is not allocated
RestrictPack ==
  /\ snd.host = "pack"
  /\ snd' = [snd EXCEPT
               !.read = [e \in DOMAIN snd.nbs |->
                           LET info == snd.cache.info[e]
                           IN IF ~info.allocated THEN "zeros"
                              ELSE IF info.var = "coarse_buf" THEN snd.coarse[e]
                              ELSE "data"],
               !.log = Append(@, "pack"),
               !.host = "sent"]
  /\ UNCHANGED <<idx, lay, kern, rcv, forest, tasks, exvars>>

\* between two calls the variable gets new values, which the coarse buffer
\* does not hold, and it is allocated or deallocated or stays as it is
RestrictUpdate ==
  /\ snd.host = "sent" /\ snd.sends < MaxSends
  /\ \E is_allocated \in BOOLEAN :
       snd' = [snd EXCEPT !.allocated = is_allocated,
                          !.coarse = [e \in DOMAIN snd.nbs |-> "stale"],
                          !.host = "idle"]
  /\ UNCHANGED <<idx, lay, kern, rcv, forest, tasks, exvars>>

RestrictNext == RestrictSendBegin \/ RestrictPack \/ RestrictUpdate

SpecRestrict == RestrictInit /\ [][RestrictNext]_vars

-----------------------------------------------------------------------------
(* The task list MakeTaskCollection makes for one partition and one stage, *)
(* and its execution: a task runs once all the tasks it depends on have    *)
(* completed; a task that returns incomplete is run again later            *)

MaxStages == 2        \* the integrator has up to MaxStages stages

\* the tasks of the list in the order of their AddTask calls; restrict is added
\* on a multilevel mesh and dealloc in the last stage
TaskList_DeallocInEveryStage(stage, nstages, multilevel) ==
  <<"start_reflux", "start_bound", "calc_flux", "send_flx", "recv_flx", "set_flx", "update",
    "send", "recv", "set", "init_allocated">>
  \o (IF multilevel THEN <<"restrict">> ELSE <<>>)
  \o <<"dealloc">>

TaskList(stage, nstages, multilevel) ==
  <<"start_reflux", "start_bound", "calc_flux", "send_flx", "recv_flx", "set_flx", "update",
    "send", "recv", "set", "init_allocated">>
  \o (IF multilevel THEN <<"restrict">> ELSE <<>>)
  \o (IF stage = nstages THEN <<"dealloc">> ELSE <<>>)

\* the first argument of every AddTask: the tasks the new task depends on
Dependencies_RecvOnUpdateOnly(t, multilevel) ==
  CASE t \in {"start_reflux", "start_bound", "calc_flux"} -> {}
    [] t \in {"send_flx", "recv_flx"} -> {"start_reflux", "calc_flux"}
    [] t = "set_flx" -> {"recv_flx"}
    [] t = "update" -> {"set_flx"}
    [] t = "send" -> {"update"}
    [] t = "recv" -> {"update"}
    [] t = "set" -> {"recv"}
    [] t = "init_allocated" -> {"set"}
    [] t = "restrict" -> {"init_allocated"}
    [] OTHER -> IF multilevel THEN {"restrict"} ELSE {"set"}

Dependencies_SetFlxOnStart(t, multilevel) ==
  CASE t \in {"start_reflux", "start_bound", "calc_flux"} -> {}
    [] t \in {"send_flx", "recv_flx"} -> {"start_reflux", "calc_flux"}
    [] t = "set_flx" -> {"start_reflux"}
    [] t = "update" -> {"set_flx"}
    [] t = "send" -> {"update"}
    [] t = "recv" -> {"update", "start_bound"}
    [] t = "set" -> {"recv"}
    [] t = "init_allocated" -> {"set"}
    [] t = "restrict" -> {"init_allocated"}
    [] OTHER -> IF multilevel THEN {"restrict"} ELSE {"set"}

Dependencies(t, multilevel) ==
  CASE t \in {"start_reflux", "start_bound", "calc_flux"} -> {}
    [] t \in {"send_flx", "recv_flx"} -> {"start_reflux", "calc_flux"}
    [] t = "set_flx" -> {"recv_flx"}
    [] t = "update" -> {"set_flx"}
    [] t = "send" -> {"update"}
    [] t = "recv" -> {"update", "start_bound"}
    [] t = "set" -> {"recv"}
    [] t = "init_allocated" -> {"set"}
    [] t = "restrict" -> {"init_allocated"}
    [] OTHER -> IF multilevel THEN {"restrict"} ELSE {"set"}

\* what a task may return: the two receive tasks poll for their buffers
TaskOutcomes(t) ==
  IF t \in {"recv", "recv_flx"} THEN {"complete", "incomplete"} ELSE {"complete"}

InList(t) == \E m \in 1..Len(tasks.list) : tasks.list[m] = t

TasksInit ==
  /\ idx = Unused /\ lay = Unused /\ kern = Unused /\ rcv = Unused /\ forest = Unused
  /\ snd = Unused /\ ExUnused
  /\ \E nstages \in 1..MaxStages, multilevel \in BOOLEAN :
     \E stage \in 1..nstages :
       LET list == TaskList(stage, nstages, multilevel)
       IN tasks = [stage |-> stage, nstages |-> nstages, multilevel |-> multilevel,
                   list |-> list,
                   status |-> [m \in 1..Len(list) |-> "pending"]]

\* the status of task t of the list: pending until it is run first, then
\* incomplete or complete
StatusOf(t) == tasks.status[CHOOSE m \in 1..Len(tasks.list) : tasks.list[m] = t]

\* a task is ready when every task it depends on is complete
TaskReady(m) ==
  /\ tasks.status[m] # "complete"
  /\ \A d \in Dependencies(tasks.list[m], tasks.multilevel) : StatusOf(d) = "complete"

\* the task at position m of the list is run
TaskRun(m) ==
  /\ TaskReady(m)
  /\ \E outcome \in TaskOutcomes(tasks.list[m]) :
       tasks' = [tasks EXCEPT !.status[m] = outcome]
  /\ UNCHANGED <<idx, lay, kern, rcv, forest, snd, exvars>>

TaskRunStep == \E m \in 1..Len(tasks.list) : TaskRun(m)

TasksNext == TaskRunStep

SpecTasks == TasksInit /\ [][TasksNext]_vars

-----------------------------------------------------------------------------
(* The forest: nodes, edges, faces and FindEdgeNeighbors; the faces are     *)
(* created first and one edge of the forest is looked up then              *)

MaxNodes == 4         \* the nodes are 1..MaxNodes
MaxFaces == 3         \* a forest has up to MaxFaces faces

Nodes == 1..MaxNodes

South == "South"
North == "North"
West == "West"
East == "East"

EdgeLocs == {South, North, West, East}

\* Edge::RelativeOrientation, the edges as pairs of nodes
RelativeOrientation_Unsigned(e, e2) ==
  IF (e[1] = e2[1] /\ e[2] = e2[2]) \/ (e[1] = e2[2] /\ e[2] = e2[1]) THEN 1 ELSE 0

RelativeOrientation_HalfReversed(e, e2) ==
  IF e[1] = e2[1] /\ e[2] = e2[2] THEN 1
  ELSE IF e[1] = e2[2] THEN -1
  ELSE 0

RelativeOrientation(e, e2) ==
  IF e[1] = e2[1] /\ e[2] = e2[2] THEN 1
  ELSE IF e[1] = e2[2] /\ e[2] = e2[1] THEN -1
  ELSE 0

\* the edges the Face constructor makes of nodes[0..3]
FaceEdges_EastDownward(nodes) ==
  [loc \in EdgeLocs |->
     CASE loc = South -> <<nodes[1], nodes[2]>>
       [] loc = West -> <<nodes[1], nodes[3]>>
       [] loc = East -> <<nodes[4], nodes[2]>>
       [] OTHER -> <<nodes[3], nodes[4]>>]

FaceEdges(nodes) ==
  [loc \in EdgeLocs |->
     CASE loc = South -> <<nodes[1], nodes[2]>>
       [] loc = West -> <<nodes[1], nodes[3]>>
       [] loc = East -> <<nodes[2], nodes[4]>>
       [] OTHER -> <<nodes[3], nodes[4]>>]

\* two edges are given to RelativeOrientation
EdgeInit ==
  /\ idx = Unused /\ lay = Unused /\ kern = Unused /\ rcv = Unused /\ ExUnused
  /\ snd = Unused /\ tasks = Unused
  /\ \E e \in Nodes \X Nodes, e2 \in Nodes \X Nodes :
       forest = [e |-> e, e2 |-> e2, called |-> FALSE, o |-> 0]

EdgeOrient ==
  /\ ~forest.called
  /\ forest' = [forest EXCEPT !.called = TRUE, !.o = RelativeOrientation(forest.e, forest.e2)]
  /\ UNCHANGED <<idx, lay, kern, rcv, snd, tasks, exvars>>

EdgeNext == EdgeOrient

SpecEdge == EdgeInit /\ [][EdgeNext]_vars

\* the orders in which a set of faces, or the edge map of a face, may be iterated
FaceOrders(S) ==
  {q \in [1..Cardinality(S) -> S] : \A a \in 1..Cardinality(S) : \A b \in 1..Cardinality(S) :
                                      q[a] = q[b] => a = b}

LocOrders == {<<South, West, East, North>>, <<North, East, West, South>>,
              <<West, North, South, East>>}

NoQuery == [none |-> TRUE]

ForestInit ==
  /\ idx = Unused /\ lay = Unused /\ kern = Unused /\ rcv = Unused /\ ExUnused
  /\ snd = Unused /\ tasks = Unused
  /\ forest = [faces |-> <<>>, associated_faces |-> [n \in Nodes |-> {}],
               query |-> NoQuery, neighbors |-> <<>>]

\* the loop of Face::create over the nodes of the new face: n is one of them
InsertsInto_FirstThree(nodes, n) == \E m \in 1..3 : nodes[m] = n

InsertsInto(nodes, n) == \E m \in 1..4 : nodes[m] = n

\* Face::create on four nodes: the new face is added to the faces of its nodes
FaceCreate(nodes) ==
  /\ forest.query = NoQuery
  /\ Len(forest.faces) < MaxFaces
  /\ forest' = [faces |-> Append(forest.faces, nodes),
                associated_faces |->
                  [n \in DOMAIN forest.associated_faces |->
                     IF InsertsInto(nodes, n)
                     THEN forest.associated_faces[n] \cup {Len(forest.faces) + 1}
                     ELSE forest.associated_faces[n]],
                query |-> NoQuery, neighbors |-> <<>>]
  /\ UNCHANGED <<idx, lay, kern, rcv, snd, tasks, exvars>>

\* the test that keeps face_in out of its own neighbors
IsOther_Any(neigh, face_in) == TRUE

IsOther(neigh, face_in) == neigh # face_in

\* the loop over the edges of one possible neighbor
RECURSIVE EdgesOfNeighbor(_, _, _, _)
EdgesOfNeighbor(edge, neigh, locs, m) ==
  IF m > Len(locs) THEN <<>>
  ELSE LET orientation == RelativeOrientation(edge, FaceEdges(forest.faces[neigh])[locs[m]])
       IN (IF orientation # 0 THEN <<<<neigh, locs[m], orientation>>>> ELSE <<>>)
          \o EdgesOfNeighbor(edge, neigh, locs, m + 1)

\* the loop over the possible neighbors
RECURSIVE CheckNeighbors(_, _, _, _, _)
CheckNeighbors(edge, face_in, possible, locs, m) ==
  IF m > Len(possible) THEN <<>>
  ELSE (IF IsOther(possible[m], face_in)
        THEN EdgesOfNeighbor(edge, possible[m], locs, 1)
        ELSE <<>>)
       \o CheckNeighbors(edge, face_in, possible, locs, m + 1)

\* the faces of the two nodes of an edge
PossibleNeighbors(edge) ==
  forest.associated_faces[edge[1]] \cup forest.associated_faces[edge[2]]

\* FindEdgeNeighbors(face_in, loc), the set of possible neighbors iterated in
\* the order possible and the edges of a face in the order locs
FindEdgeNeighbors(face_in, loc, possible, locs) ==
  CheckNeighbors(FaceEdges(forest.faces[face_in])[loc], face_in, possible, locs, 1)

FindNeighbors(face_in, loc) ==
  /\ forest.query = NoQuery
  /\ \E possible \in FaceOrders(PossibleNeighbors(FaceEdges(forest.faces[face_in])[loc])) :
       \E locs \in LocOrders :
         forest' = [forest EXCEPT !.query = [face |-> face_in, loc |-> loc],
                                  !.neighbors = FindEdgeNeighbors(face_in, loc, possible, locs)]
  /\ UNCHANGED <<idx, lay, kern, rcv, snd, tasks, exvars>>

\* a face has four nodes, all different; nodes are compared for identity only,
\* so the first face of a forest is made of the nodes 1, 2, 3, 4 in this order
FaceCreateStep ==
  /\ forest.query = NoQuery /\ Len(forest.faces) < MaxFaces
  /\ \E nodes \in [1..4 -> Nodes] :
       /\ \A a \in 1..4 : \A b \in 1..4 : nodes[a] = nodes[b] => a = b
       /\ forest.faces = <<>> => nodes = <<1, 2, 3, 4>>
       /\ FaceCreate(nodes)

FindNeighborsStep ==
  /\ forest.query = NoQuery
  /\ \E face_in \in 1..Len(forest.faces) : \E loc \in EdgeLocs : FindNeighbors(face_in, loc)

ForestNext == FaceCreateStep \/ FindNeighborsStep

SpecForest == ForestInit /\ [][ForestNext]_vars

\* faces only, over one node more than a face has corners at the least; a
\* forest has a face less here. Nodes are compared for identity only, so
\* the nodes are numbered in the order in which the faces first use them
MoreNodes == 1..(MaxNodes + 1)

FacesInit ==
  /\ idx = Unused /\ lay = Unused /\ kern = Unused /\ rcv = Unused /\ ExUnused
  /\ snd = Unused /\ tasks = Unused
  /\ forest = [faces |-> <<>>, associated_faces |-> [n \in MoreNodes |-> {}],
               query |-> NoQuery, neighbors |-> <<>>]

UsedNodes == {n \in MoreNodes : \E f \in 1..Len(forest.faces) : InsertsInto(forest.faces[f], n)}

InOrderOfUse(nodes) ==
  \A m \in 1..4 :
    nodes[m] \notin UsedNodes =>
      nodes[m] = Cardinality(UsedNodes) + 1
                 + Cardinality({m2 \in 1..(m - 1) : nodes[m2] \notin UsedNodes})

FacesCreateStep ==
  /\ Len(forest.faces) < MaxFaces - 1
  /\ \E nodes \in [1..4 -> MoreNodes] :
       /\ \A a \in 1..4 : \A b \in 1..4 : nodes[a] = nodes[b] => a = b
       /\ InOrderOfUse(nodes)
       /\ FaceCreate(nodes)

FacesNext == FacesCreateStep

SpecFaces == FacesInit /\ [][FacesNext]_vars

\* a pair of faces, and one edge of one of them looked up
PairCreateStep ==
  /\ forest.query = NoQuery /\ Len(forest.faces) < 2
  /\ \E nodes \in [1..4 -> MoreNodes] :
       /\ \A a \in 1..4 : \A b \in 1..4 : nodes[a] = nodes[b] => a = b
       /\ InOrderOfUse(nodes)
       /\ FaceCreate(nodes)

PairNext == PairCreateStep \/ FindNeighborsStep

SpecPair == FacesInit /\ [][PairNext]_vars

\* a pair of faces and two lookups, one after the other
FindNeighborsAgain(face_in, loc) ==
  /\ forest.query # NoQuery
  /\ "second" \notin DOMAIN forest
  /\ \E possible \in FaceOrders(PossibleNeighbors(FaceEdges(forest.faces[face_in])[loc])) :
       \E locs \in LocOrders :
         forest' = [faces |-> forest.faces, associated_faces |-> forest.associated_faces,
                    query |-> forest.query, neighbors |-> forest.neighbors,
                    second |-> [face |-> face_in, loc |-> loc,
                                neighbors |->
                                  FindEdgeNeighbors(face_in, loc, possible, locs)]]
  /\ UNCHANGED <<idx, lay, kern, rcv, snd, tasks, exvars>>

FindNeighborsAgainStep ==
  \E face_in \in 1..Len(forest.faces) : \E loc \in EdgeLocs : FindNeighborsAgain(face_in, loc)

TwoLookupsNext == PairCreateStep \/ FindNeighborsStep \/ FindNeighborsAgainStep

SpecTwoLookups == FacesInit /\ [][TwoLookupsNext]_vars

-----------------------------------------------------------------------------
(* The send cache alone: SendBoundaryBuffers up to its staleness test and   *)
(* rebuild, between changes of the allocation of the blocks                 *)

CacheInit ==
  /\ idx = Unused /\ lay = Unused /\ kern = Unused /\ rcv = Unused /\ forest = Unused
  /\ snd = Unused /\ tasks = Unused
  /\ setup = [mesh |-> "pair", fills |-> {"zero"}]
  /\ sparse_enabled = TRUE
  /\ pack_size \in {1, 2}
  /\ ncycle = 0
  /\ allocated \in [Gids -> BOOLEAN]
  /\ data = [g \in Gids |-> ZeroData]
  /\ send = [g \in Gids |-> [o \in BufIds(g) |-> ZeroBuf]]
  /\ recv = [g \in Gids |-> [o \in BufIds(g) |-> ZeroBuf]]
  /\ sflag = [g \in Gids |-> [o \in BufIds(g) |-> "waiting"]]
  /\ flag = [g \in Gids |-> [o \in BufIds(g) |-> "waiting"]]
  /\ lna = [g \in Gids |-> [n \in 1..Len(NeighborsOf(g)) |-> FALSE]]
  /\ sendCache = [p \in MDs |-> NoCache]
  /\ setCache = [p \in MDs |-> NoCache]
  /\ pc = [p \in MDs |-> "send"]
  /\ cur = Idle
  /\ err = "none"
  /\ hist = [seen |-> [p \in MDs |-> {}]]

\* SendBoundaryBuffers of partition p up to the launch of the pack kernel; the
\* history keeps every cache that was built for p
CacheSend(p) ==
  /\ LET l == [g \in Gids |-> IF g \in BlocksIn(p) THEN LocalNeighborAllocated(g) ELSE lna[g]]
         sf == [g \in Gids |->
                  IF g \in BlocksIn(p) THEN [o \in BufIds(g) |-> "waiting"] ELSE sflag[g]]
         alloc_status == ResetSendBuffers(p, sf)
         have_cache == sendCache[p] # NoCache
         cached == IF have_cache THEN sendCache[p].alloc_status ELSE <<>>
         rebuild == NeedRebuild(have_cache, alloc_status, cached)
         built == ResetSendBufferBoundaryInfo(p, sf, l, alloc_status)
     IN /\ lna' = l
        /\ sflag' = sf
        /\ sendCache' = [sendCache EXCEPT ![p] = IF rebuild THEN built ELSE @]
        /\ hist' = [hist EXCEPT !.seen[p] = IF rebuild THEN @ \cup {built} ELSE @]
  /\ UNCHANGED <<idx, lay, kern, rcv, forest, snd, tasks,
                 setup, sparse_enabled, pack_size, ncycle, allocated, data, send, recv,
                 flag, setCache, pc, cur, err>>

\* the variable of block g is allocated or deallocated between two sends
CacheAllocChange(g) ==
  /\ allocated' = [allocated EXCEPT ![g] = ~@]
  /\ UNCHANGED <<idx, lay, kern, rcv, forest, snd, tasks,
                 setup, sparse_enabled, pack_size, ncycle, data, send, recv, sflag,
                 flag, lna, sendCache, setCache, pc, cur, err, hist>>

CacheSendStep == \E p \in MDs : CacheSend(p)
CacheAllocChangeStep == \E g \in Gids : CacheAllocChange(g)

CacheNext == CacheSendStep \/ CacheAllocChangeStep

SpecCache == CacheInit /\ [][CacheNext]_vars

-----------------------------------------------------------------------------
(* Properties of the exchange *)

\* the neighbor record of block r that points back at block g
BackTo(r, g) == NeighborsOf(r)[CHOOSE m \in 1..Len(NeighborsOf(r)) : NeighborsOf(r)[m].gid = g]

Links == {<<g, n>> : g \in Gids, n \in {1}}

\* C1: with the sparse protocol enabled, no receive flag is arrived or completed
\* for a buffer whose sender packed a value above the threshold while the
\* receiving block's variable is unallocated (until the receiver's own list is
\* through, when it may deallocate again)
C1_AllocatedBeforeArrived ==
  \A l \in Links :
    LET g == l[1]
        nb == NeighborsOf(g)[l[2]]
    IN (/\ sparse_enabled
        /\ hist.sent[g] = "big"
        /\ sflag[g][nb.bufid] = "completed"
        /\ flag[nb.gid][nb.targetid] \in {"arrived", "completed"}
        /\ pc[MdOf(nb.gid)] # "done")
       => allocated[nb.gid]

\* C2: with the sparse protocol enabled, AllocateSparse is called only by a
\* sender that packed a value above the threshold; a receiver that was
\* unallocated when a sender packed nothing above the threshold for it is not
\* allocated by the exchange
C2_NoAllocAtOrBelowThreshold ==
  /\ \A g \in hist.allocCalls : hist.sent[g] = "big"
  /\ \A l \in Links :
       LET g == l[1]
           nb == NeighborsOf(g)[l[2]]
       IN (/\ sparse_enabled
           /\ hist.sent[g] \in {"zero", "small"}
           /\ sflag[g][nb.bufid] = "completed"
           /\ ~lna[g][l[2]]
           /\ (pc[MdOf(nb.gid)] # "update" => ~hist.preAlloc[nb.gid]))
          => ~allocated[nb.gid]

\* the receiver is through Set, still unallocated, and its sender packed the
\* threshold itself
C2_Witness ==
  \E l \in Links :
    LET g == l[1]
        nb == NeighborsOf(g)[l[2]]
    IN /\ sparse_enabled /\ hist.sent[g] = "small" /\ sflag[g][nb.bufid] = "completed"
       /\ pc[MdOf(nb.gid)] = "post" /\ ~allocated[nb.gid]

\* the tag element of the receive buffer of block g for neighbor nb
RecvTag(g, nb) == recv[g][nb.bufid][TagOffset(SetWindow(nb, BlockOf(g)), ExGeom.Nv)]

\* C3: with the sparse protocol enabled, after the unpack kernel an entry whose
\* variable was allocated has its variable still allocated and every cell of its
\* window equal to 0 if the tag element of its buffer is 0, and equal to the
\* buffer element of the cell otherwise
C3_SetWritesZeros ==
  \A g \in Gids :
    (sparse_enabled /\ pc[MdOf(g)] = "post") =>
      \A e \in 1..Len(setCache[MdOf(g)].info) :
        LET info == setCache[MdOf(g)].info[e]
            nb == NeighborsOf(g)[Triples(MdOf(g))[e][2]]
            w == SetWindow(nb, BlockOf(g))
        IN (info.var = g /\ info.allocated) =>
             /\ allocated[g]
             /\ \A c \in WCells(w, ExGeom.Nv) :
                  data[g][c] = IF RecvTag(g, nb) = 0 THEN 0
                               ELSE recv[g][nb.bufid][PackOffset(w, ExGeom.Nv, c[1], c[2], c[3], c[4])]

\* an allocated block is through Set with a tag of 0 on a payload that is not zero
C3_Witness ==
  \E g \in Gids :
    LET nb == NeighborsOf(g)[1]
    IN /\ sparse_enabled /\ pc[MdOf(g)] = "post" /\ allocated[g]
       /\ RecvTag(g, nb) = 0
       /\ \E o \in 0..(TagOffset(SetWindow(nb, BlockOf(g)), ExGeom.Nv) - 1) :
            recv[g][nb.bufid][o] # 0

\* C4: with the sparse protocol enabled, if the send window of block g was all
\* zero (or g unallocated) when g packed, then after Set the neighbor, if
\* allocated, has zero in all its ghost cells facing g, and it is allocated iff
\* it was before the exchange
C4_ZeroWindowZeroGhost ==
  \A l \in Links :
    LET g == l[1]
        r == NeighborsOf(g)[l[2]].gid
    IN (sparse_enabled /\ hist.sent[g] = "zero" /\ pc[MdOf(r)] = "post") =>
         /\ allocated[r] = hist.preAlloc[r]
         /\ allocated[r] =>
              \A c \in WCells(SetWindow(BackTo(r, g), BlockOf(r)), ExGeom.Nv) : data[r][c] = 0

\* C10: when a kernel is about to run, its cache has one entry per triple, the
\* recorded status is the current status, and every entry's allocated bit is the
\* current allocation of the entry's variable
C10_CacheAllocBits ==
  \A p \in MDs :
    /\ (cur.md = p /\ cur.at = "pack") =>
         /\ sendCache[p] # NoCache
         /\ sendCache[p].alloc_status = ResetSendBuffers(p, sflag)
         /\ Len(sendCache[p].info) = Len(SendEntries(p, sflag))
         /\ \A e \in 1..Len(sendCache[p].info) :
              sendCache[p].info[e].allocated = allocated[SendEntries(p, sflag)[e][1]]
    /\ (cur.md = p /\ cur.at = "setk") =>
         /\ setCache[p] # NoCache
         /\ setCache[p].alloc_status = GetSetFromBufersAllocStatus(p)
         /\ Len(setCache[p].info) = Len(Triples(p))
         /\ \A e \in 1..Len(setCache[p].info) :
              setCache[p].info[e].allocated = allocated[Triples(p)[e][1]]

\* in a later exchange the pack kernel is about to run on a send cache that had
\* to be rebuilt, because the allocation status changed since the cache was built
C10_Witness ==
  /\ ncycle > 0
  /\ cur.at = "pack"
  /\ <<"send", cur.md>> \in hist.rebuilt
  /\ \E e \in 1..Len(sendCache[cur.md].info) : ~sendCache[cur.md].info[e].allocated

\* C12: once SetBoundaries is through on a MeshData, with its set cache rebuilt
\* or reused, the receive flag of every triple of the MeshData is completed
C12_FlagsCompletedAfterSet ==
  \A p \in MDs :
    pc[p] = "post" =>
      \A e \in 1..Len(Triples(p)) :
        LET g == Triples(p)[e][1]
            nb == NeighborsOf(g)[Triples(p)[e][2]]
        IN flag[g][nb.bufid] = "completed"

\* the cell of block a at the place of cell c of block b
Facing(a, b, c) ==
  <<c[1], c[2], c[3], c[4] + (BlockOf(b).lx1 - BlockOf(a).lx1) * ExGeom.nx1>>

\* C18: with the sparse protocol enabled, if block b was unallocated before the
\* exchange and its neighbor a packed a send window with every cell above the
\* threshold, then once Set is through on b, b is allocated and every ghost cell
\* of its window facing a holds the value a has in the facing cell
C18_UnallocatedReceiverGetsValues ==
  \A l \in Links :
    LET a == l[1]
        nb == NeighborsOf(a)[l[2]]
        b == nb.gid
    IN (/\ sparse_enabled
        /\ ~hist.preAlloc[b]
        /\ hist.sent[a] # "none"
        /\ pc[MdOf(a)] \in {"recv", "set", "post"}
        /\ allocated[a]
        /\ \A c \in WCells(SendWindow(nb, BlockOf(a)), ExGeom.Nv) : IsNonzero(data[a][c])
        /\ pc[MdOf(b)] = "post")
       => /\ allocated[b]
          /\ \A c \in WCells(SetWindow(BackTo(b, a), BlockOf(b)), ExGeom.Nv) :
               data[b][c] = data[a][Facing(a, b, c)]

\* C11: with the sparse protocol enabled, if blocks a and b were both allocated
\* through an exchange, only b was deallocated after it, and b was not allocated
\* again before the next exchange, then once Set of that exchange is through on
\* b the send caches of the MeshData of a and of b have been rebuilt, b is
\* allocated with the values of a's facing cells in its ghost cells facing a if
\* a's send window holds a value above the threshold, and b is unallocated if
\* a's send window is all zero
C11_ResetAndRebuild ==
  \A l \in Links :
    LET a == l[1]
        nb == NeighborsOf(a)[l[2]]
        b == nb.gid
        w == WCells(SendWindow(nb, BlockOf(a)), ExGeom.Nv)
    IN (/\ sparse_enabled
        /\ ncycle > 0
        /\ hist.reset = {b}
        /\ ~hist.preAlloc[b]
        /\ hist.sent[a] # "none"
        /\ pc[MdOf(a)] \in {"recv", "set", "post"}
        /\ allocated[a]
        /\ pc[MdOf(b)] = "post")
       => /\ <<"send", MdOf(a)>> \in hist.rebuilt
          /\ <<"send", MdOf(b)>> \in hist.rebuilt
          /\ (\E c \in w : IsNonzero(data[a][c])) =>
               /\ allocated[b]
               /\ \A c \in WCells(SetWindow(BackTo(b, a), BlockOf(b)), ExGeom.Nv) :
                    data[b][c] = data[a][Facing(a, b, c)]
          /\ (\A c \in w : data[a][c] = 0) => ~allocated[b]

\* C15: when Send -> Receive -> Set has run twice on every partition with no
\* update task and no deallocation in between, every cell of every block and
\* every allocation flag is as the first run left it
C15_Idempotent ==
  (hist.first # NoCache /\ \A p \in MDs : pc[p] = "post") =>
    /\ allocated = hist.first.allocated
    /\ data = hist.first.data

\* C16: two send caches built for one MeshData with the same alloc_status have
\* the same entries: windows, Nv, allocated and restriction bits, source array
\* and target buffer
C16_CacheStability ==
  \A p \in MDs :
    \A c1 \in hist.seen[p] :
      \A c2 \in hist.seen[p] :
        c1.alloc_status = c2.alloc_status => c1.info = c2.info

\* a call of ReceiveBoundaryBuffers has returned
RecvReturned == rcv.status \in {"complete", "incomplete", "failed"}

\* C13: a call of ReceiveBoundaryBuffers has polled every block of the MeshData,
\* also after a block reported incomplete, and it returns complete iff every
\* block reported complete in this call; otherwise it returns incomplete or
\* fails with the timeout
C13_CompleteIffAllBlocks ==
  RecvReturned =>
    /\ Len(rcv.report) = rcv.NumBlocks
    /\ rcv.status = "complete" <=> \A b \in 1..rcv.NumBlocks : rcv.report[b]

\* a call returned incomplete although the block polled last reported complete
C13_Witness ==
  /\ rcv.status = "incomplete" /\ rcv.NumBlocks > 1
  /\ ~rcv.report[1] /\ rcv.report[rcv.NumBlocks]

\* C14: a call of ReceiveBoundaryBuffers fails with "timed out" exactly when the
\* build has MPI, a block reported incomplete, the timeout is above 0 and the
\* running time of the task is not below the timeout
C14_TimedOutExactly ==
  RecvReturned =>
    (rcv.status = "failed" <=>
       /\ rcv.mpi
       /\ \E b \in 1..rcv.NumBlocks : ~rcv.report[b]
       /\ rcv.timeout > 0
       /\ rcv.read >= rcv.timeout)

\* a call failed with the running time equal to the timeout
C14_Witness == rcv.status = "failed" /\ rcv.read = rcv.timeout

\* the edge a lookup is about, and the edge of face g at loc
QueryEdge == FaceEdges(forest.faces[forest.query.face])[forest.query.loc]

EdgeAt(g, loc) == FaceEdges(forest.faces[g])[loc]

SameNodes(e, e2) == {e[1], e[2]} = {e2[1], e2[2]}

\* the other faces that have the edge of the lookup
OtherFacesWithEdge ==
  {g \in 1..Len(forest.faces) :
     g # forest.query.face /\ \E loc \in EdgeLocs : SameNodes(QueryEdge, EdgeAt(g, loc))}

NeighborSet == {forest.neighbors[m] : m \in 1..Len(forest.neighbors)}

\* C19: the result of FindEdgeNeighbors(face, loc), as a set and whatever the
\* iteration orders, is exactly the triples (g, loc', o) with g another face
\* whose edge at loc' has the two nodes of face's edge at loc, o = +1 if in the
\* same order and -1 if reversed; the face itself is not in it, it is empty iff
\* no other face has the edge, and its faces are all the other faces of the edge
C19_FindEdgeNeighborsExact ==
  forest.query # NoQuery =>
    /\ NeighborSet =
         {t \in (1..Len(forest.faces)) \X EdgeLocs \X {-1, 1} :
            /\ t[1] # forest.query.face
            /\ SameNodes(QueryEdge, EdgeAt(t[1], t[2]))
            /\ t[3] = IF QueryEdge = EdgeAt(t[1], t[2]) THEN 1 ELSE -1}
    /\ \A t \in NeighborSet : t[1] # forest.query.face
    /\ NeighborSet = {} <=> OtherFacesWithEdge = {}
    /\ {t[1] : t \in NeighborSet} = OtherFacesWithEdge

\* an edge of three faces was looked up: both other faces are found, one with
\* the nodes in the same order and one with the nodes reversed
C19_Witness ==
  /\ forest.query # NoQuery
  /\ Cardinality(OtherFacesWithEdge) = 2
  /\ \E t \in NeighborSet : \E u \in NeighborSet : t[1] # u[1] /\ t[3] = 1 /\ u[3] = -1

\* C20: RelativeOrientation returns +1 iff the edges have the same first and
\* the same second node, -1 iff the first node of each is the second node of
\* the other and they do not match in order, and 0 in every other case
C20_RelativeOrientation ==
  forest.called =>
    LET inOrder == forest.e[1] = forest.e2[1] /\ forest.e[2] = forest.e2[2]
        reversed == forest.e[1] = forest.e2[2] /\ forest.e[2] = forest.e2[1]
    IN /\ forest.o = 1 <=> inOrder
       /\ forest.o = -1 <=> (reversed /\ ~inOrder)
       /\ forest.o = 0 <=> (~inOrder /\ ~reversed)
       /\ forest.o = 1 <=> forest.e = forest.e2

\* the orientation of an edge and the same two nodes reversed was computed
C20_Witness ==
  /\ forest.called /\ forest.o = -1
  /\ forest.e[1] # forest.e[2]

\* C17: in the periodic row, once Set is through on every partition, the ghost
\* columns of blocks 2 and 4 on the side of block 1 hold the value block 1 was
\* filled with in every cell, and every ghost cell of block 3 is 0
C17_PeriodicRow ==
  (setup.mesh = "row" /\ \A p \in MDs : pc[p] = "post") =>
    /\ \A r \in {2, 4} :
         \A c \in WCells(SetWindow(BackTo(r, 1), BlockOf(r)), ExGeom.Nv) :
           data[r][c] = FillValue("one", c)
    /\ \A c \in Cells \ InteriorCells : data[3][c] = 0

\* C21: every created face is in the associated_faces of each of its four nodes,
\* every face in the associated_faces of a node has that node among its four
\* nodes, and Face::create changes the associated_faces of the four nodes of
\* the new face only.
C21_Registered ==
  /\ \A f \in 1..Len(forest.faces) : \A m \in 1..4 :
       f \in forest.associated_faces[forest.faces[f][m]]
  /\ \A n \in DOMAIN forest.associated_faces : \A f \in forest.associated_faces[n] :
       /\ f \in 1..Len(forest.faces)
       /\ \E m \in 1..4 : forest.faces[f][m] = n

C21_OwnNodesOnly ==
  Len(forest'.faces) = Len(forest.faces) + 1 =>
    \A n \in DOMAIN forest.associated_faces :
      (\A m \in 1..4 : forest'.faces[Len(forest'.faces)][m] # n) =>
        forest'.associated_faces[n] = forest.associated_faces[n]

C21_NodeFaceRegistration == [](C21_Registered) /\ [][C21_OwnNodesOnly]_vars

\* two faces; a node of the first face is not a node of the second one, whose
\* creation left the faces of that node alone
C21_Witness ==
  /\ Len(forest.faces) = 2
  /\ DOMAIN forest.associated_faces = MoreNodes
  /\ \E n \in MoreNodes : forest.associated_faces[n] = {1}
  /\ \E n \in MoreNodes : forest.associated_faces[n] = {2}
  /\ \E n \in MoreNodes : forest.associated_faces[n] = {1, 2}

\* the face g lies across the edge loc of the face f, its corners listed in
\* the same frame [SW, SE, NW, NE] as those of f
AcrossInFrame(f, loc, g) ==
  LET a == forest.faces[f]
      b == forest.faces[g]
  IN CASE loc = East -> b[1] = a[2] /\ b[3] = a[4]
       [] loc = West -> b[2] = a[1] /\ b[4] = a[3]
       [] loc = North -> b[1] = a[3] /\ b[2] = a[4]
       [] OTHER -> b[3] = a[1] /\ b[4] = a[2]

Opposite(loc) ==
  CASE loc = East -> West
    [] loc = West -> East
    [] loc = North -> South
    [] OTHER -> North

\* C27: the edges of a face of the nodes [n0, n1, n2, n3] are South = (n0, n1),
\* North = (n2, n3), West = (n0, n2) and East = (n1, n3), and a face across an
\* edge that lists its corners in the same frame is found on the opposite edge
\* with the orientation +1.
C27_FaceEdgesFromCorners ==
  /\ \A f \in 1..Len(forest.faces) :
       LET n == forest.faces[f]
           edges == FaceEdges(n)
       IN /\ edges[South] = <<n[1], n[2]>>
          /\ edges[North] = <<n[3], n[4]>>
          /\ edges[West] = <<n[1], n[3]>>
          /\ edges[East] = <<n[2], n[4]>>
  /\ forest.query # NoQuery =>
       \A g \in 1..Len(forest.faces) :
         (g # forest.query.face /\ AcrossInFrame(forest.query.face, forest.query.loc, g)) =>
           \E m \in 1..Len(forest.neighbors) :
             forest.neighbors[m] = <<g, Opposite(forest.query.loc), 1>>

\* the edge East of a face was looked up and a face lies across it in the same frame
C27_Witness ==
  /\ forest.query # NoQuery
  /\ forest.query.loc = East
  /\ \E g \in 1..Len(forest.faces) :
       /\ g # forest.query.face
       /\ AcrossInFrame(forest.query.face, East, g)
       /\ \E m \in 1..Len(forest.neighbors) : forest.neighbors[m] = <<g, West, 1>>

\* the half of the interior range b of nx cells that fi keeps: the upper one
\* for fi = 1, the lower one for fi = 0
HalfOf(b, nx, fi) ==
  IF fi = 1 THEN [s |-> b.s + nx \div 2, e |-> b.e] ELSE [s |-> b.s, e |-> b.e - nx \div 2]

\* the window from a finer neighbor has been computed by the coarse receiver
SetFromFinerDone == IdxBoth /\ idx.rnb.level > idx.rpmb.level

\* C28 as stated: in CalcIndicesSetFromFiner an axis with ox = 0 and more than
\* one cell keeps the half chosen by fi1 if any axis before it (x1 before x2
\* before x3) has ox # 0 and by fi2 otherwise, x1 always by fi1.
C28_HalfByAnyHigherAxis ==
  SetFromFinerDone =>
    LET nb == idx.rnb
        pmb == idx.rpmb
        b == cellbounds(pmb)
    IN /\ nb.ox1 = 0 => AxisI(idx.set) = HalfOf(b.i, pmb.nx1, nb.fi1)
       /\ (nb.ox2 = 0 /\ pmb.nx2 > 1) =>
            AxisJ(idx.set) = HalfOf(b.j, pmb.nx2, IF nb.ox1 # 0 THEN nb.fi1 ELSE nb.fi2)
       /\ (nb.ox3 = 0 /\ pmb.nx3 > 1) =>
            AxisK(idx.set) = HalfOf(b.k, pmb.nx3,
                                    IF nb.ox1 # 0 \/ nb.ox2 # 0 THEN nb.fi1 ELSE nb.fi2)

\* C28 amended: x1 keeps the half chosen by fi1; x2 the half chosen by fi1 if
\* ox1 # 0 and by fi2 otherwise; x3 the half chosen by fi1 if both ox1 # 0 and
\* ox2 # 0 and by fi2 otherwise.
C28_HalfByAllHigherAxes ==
  SetFromFinerDone =>
    LET nb == idx.rnb
        pmb == idx.rpmb
        b == cellbounds(pmb)
    IN /\ nb.ox1 = 0 => AxisI(idx.set) = HalfOf(b.i, pmb.nx1, nb.fi1)
       /\ (nb.ox2 = 0 /\ pmb.nx2 > 1) =>
            AxisJ(idx.set) = HalfOf(b.j, pmb.nx2, IF nb.ox1 # 0 THEN nb.fi1 ELSE nb.fi2)
       /\ (nb.ox3 = 0 /\ pmb.nx3 > 1) =>
            AxisK(idx.set) = HalfOf(b.k, pmb.nx3,
                                    IF nb.ox1 # 0 /\ nb.ox2 # 0 THEN nb.fi1 ELSE nb.fi2)

\* a face neighbor along x1 in three dimensions with fi1 = 1 and fi2 = 0: x2 keeps
\* the upper half and x3 the lower half
C28_Witness ==
  /\ SetFromFinerDone
  /\ idx.rpmb.nx2 = 2 /\ idx.rpmb.nx3 = 2 /\ idx.rpmb.ng = 1
  /\ idx.rnb.ox1 = 1 /\ idx.rnb.ox2 = 0 /\ idx.rnb.ox3 = 0
  /\ idx.rnb.fi1 = 1 /\ idx.rnb.fi2 = 0
  /\ AxisJ(idx.set) = [s |-> 2, e |-> 2]
  /\ AxisK(idx.set) = [s |-> 1, e |-> 1]

\* the window to a finer neighbor has been computed by the coarse sender
LoadToFinerDone == idx # Unused /\ idx.load # NoWin /\ idx.nb.level > idx.pmb.level

\* one axis of C29: l is the window, b the interior range, halved tells that the
\* axis has more than one cell (x1 is always halved)
LoadToFinerWidth(ox, b, nx, fi, halved, cnghost, l) ==
  /\ ox > 0 => l = [s |-> b.e - (cnghost - 1), e |-> b.e]
  /\ ox < 0 => l = [s |-> b.s, e |-> b.s + (cnghost - 1)]
  /\ (ox = 0 /\ halved) =>
       /\ RLen(l) = nx - (nx \div 2 - cnghost)
       /\ fi = 1 => l = [s |-> HalfOf(b, nx, 1).s - cnghost, e |-> b.e]
       /\ fi = 0 => l = [s |-> b.s, e |-> HalfOf(b, nx, 0).e + cnghost]

\* C29: CalcIndicesLoadToFiner takes cnghost - 1 for the width: the window is
\* [bounds.e - (cnghost - 1), bounds.e] for ox > 0, [bounds.s, bounds.s +
\* (cnghost - 1)] for ox < 0, and for ox = 0 on an axis of more than one cell the
\* half selected by fi widened by cnghost, nx - (nx/2 - cnghost) cells.
C29_LoadToFinerWidth ==
  LoadToFinerDone =>
    LET nb == idx.nb
        pmb == idx.pmb
        b == cellbounds(pmb)
    IN /\ LoadToFinerWidth(nb.ox1, b.i, pmb.nx1, Fi1Of(nb), TRUE, pmb.cng, AxisI(idx.load))
       /\ LoadToFinerWidth(nb.ox2, b.j, pmb.nx2, Fi2Of(nb), pmb.nx2 > 1, pmb.cng,
                           AxisJ(idx.load))
       /\ LoadToFinerWidth(nb.ox3, b.k, pmb.nx3, Fi3Of(nb), pmb.nx3 > 1, pmb.cng,
                           AxisK(idx.load))

\* four cells along x1 and x2, cnghost = 1: one cell along x1 for ox1 = 1 and
\* three cells, the upper half and one more, along x2
C29_Witness ==
  /\ LoadToFinerDone
  /\ idx.pmb.nx1 = 4 /\ idx.pmb.nx2 = 4 /\ idx.pmb.nx3 = 1
  /\ idx.pmb.ng = 2 /\ idx.pmb.cng = 1
  /\ idx.nb.ox1 = 1 /\ idx.nb.ox2 = 0 /\ idx.nb.fi1 = 1
  /\ AxisI(idx.load) = [s |-> 5, e |-> 5]
  /\ AxisJ(idx.load) = [s |-> 3, e |-> 5]

\* SendAndNotify of partition p is through its loops
SendAndNotifyDone(p) == cur.md = p /\ cur.at = "notify" /\ cur.pos > Len(Triples(p))

\* the MPI sends started for the buffer o of block g
MpiStarts(g, o) == Cardinality({m \in 1..Len(hist.mpi) : hist.mpi[m] = <<g, o>>})

\* C22, after SendAndNotify: the send flag of every entry is completed; an
\* entry to a neighbor on this rank has set the neighbor's receive flag to
\* arrived and started no MPI send; an entry to a neighbor on another rank
\* has started exactly one MPI send and was packed into the block's own send
\* buffer, whether the variable is allocated or not.
C22_AfterNotify ==
  \A p \in MDs :
    SendAndNotifyDone(p) =>
      \A t \in 1..Len(Triples(p)) :
        LET g == Triples(p)[t][1]
            nb == NeighborsOf(g)[Triples(p)[t][2]]
        IN /\ sflag[g][nb.bufid] = "completed"
           /\ nb.rank = my_rank =>
                /\ flag[nb.gid][nb.targetid] = "arrived"
                /\ MpiStarts(g, nb.bufid) = 0
           /\ nb.rank # my_rank =>
                /\ MpiStarts(g, nb.bufid) = 1
                /\ sendCache[p].info[t].buf = <<"send", g, nb.bufid>>

\* C22, the step of SendAndNotify at an entry to a neighbor on another rank:
\* no receive flag and no receive buffer of a block of this rank is written.
C22_RemoteEntryStep ==
  (/\ cur.at = "notify" /\ cur.pos <= Len(Triples(cur.md))
   /\ NeighborsOf(Triples(cur.md)[cur.pos][1])[Triples(cur.md)[cur.pos][2]].rank # my_rank
   /\ cur' # cur)
  => flag' = flag /\ recv' = recv

C22_LocalOrMpi == [](C22_AfterNotify) /\ [][C22_RemoteEntryStep]_vars

\* one partition of the two blocks, the variable allocated on block 1 only:
\* block 2 has sent to block 1 on this rank and to block 3 by MPI
C22_Witness ==
  /\ pack_size = 2 /\ SendAndNotifyDone(1)
  /\ allocated[1] /\ ~hist.preAlloc[2]
  /\ flag[1][1] = "arrived" /\ flag[2][0] = "arrived"
  /\ hist.mpi = <<<<2, 1>>>>
  /\ sflag[2][0] = "completed" /\ sflag[2][1] = "completed"

\* a step of SetBoundaries of partition p: its cache test or its kernel
SetBoundariesStep(p) ==
  \/ cur = Idle /\ pc[p] = "set" /\ cur'.md = p /\ cur'.at = "setk"
  \/ cur.md = p /\ cur.at = "setk" /\ cur' = Idle

\* C30: SetBoundaries allocates nothing, and the only cells it writes are those
\* of the windows of the entries whose variable is allocated: the entry of an
\* unallocated variable writes no cell, whatever its receive buffer holds.
C30_SetStep ==
  \A p \in MDs :
    SetBoundariesStep(p) =>
      /\ allocated' = allocated
      /\ \A g \in Gids : ~allocated[g] => data'[g] = data[g]
      /\ \A g \in Gids : \A c \in Cells :
           data'[g][c] # data[g][c] =>
             /\ g \in BlocksIn(p)
             /\ \E n \in 1..Len(NeighborsOf(g)) :
                  c \in WCells(SetWindow(NeighborsOf(g)[n], BlockOf(g)), ExGeom.Nv)

C30_UnallocatedSkipped == [][C30_SetStep]_vars

\* SetBoundaries went over the entry of an unallocated variable whose receive
\* buffer holds nonzero values, and the block still has its zero data
C30_Witness ==
  \E g \in Gids :
    /\ pc[MdOf(g)] = "post" /\ cur = Idle
    /\ ~allocated[g]
    /\ \E o \in BufIds(g) : \E k \in BufSlots : recv[g][o][k] # 0
    /\ data[g] = ZeroData

\* C23: whatever the build, no MPI send is started and no receive flag of a
\* neighbor on this rank is set to arrived before the pack kernel has stored
\* every buffer, tag element included.
C23_PackBeforeNotify ==
  (\E e \in DOMAIN snd.notified : snd.notified[e] # "no") => KernelFinished

\* task t of the list has been run at least once / has returned complete
Started(t) == InList(t) /\ StatusOf(t) # "pending"
Completed(t) == InList(t) /\ StatusOf(t) = "complete"

\* C24: SendBoundaryBuffers starts only after the update task has completed,
\* ReceiveBoundaryBuffers is polled only after the update task and
\* StartReceiveBoundBufs have completed, SetBoundaries starts only after
\* ReceiveBoundaryBuffers has returned complete, and InitNewlyAllocatedVars
\* only after SetBoundaries has completed.
C24_ExchangeTaskOrder ==
  /\ Started("send") => Completed("update")
  /\ Started("recv") => Completed("update") /\ Completed("start_bound")
  /\ Started("set") => Completed("recv")
  /\ Started("init_allocated") => Completed("set")

\* SendBoundaryBuffers is through, ReceiveBoundaryBuffers has been polled and
\* has returned incomplete, SetBoundaries waits for it
C24_Witness ==
  /\ Completed("send") /\ Completed("start_bound")
  /\ Started("recv") /\ ~Completed("recv")
  /\ ~Started("set")

\* C25: SetFluxCorrections starts only after ReceiveFluxCorrections and
\* CalculateFluxes have completed.
C25_FluxCorrectionOrder ==
  Started("set_flx") => Completed("recv_flx") /\ Completed("calc_flux")

\* SetFluxCorrections has run before LoadAndSendFluxCorrections and the update task
C25_Witness ==
  /\ Started("set_flx") /\ ~Started("update") /\ ~Started("send_flx")

\* C26: the list has a SparseDealloc task in the last stage only; SparseDealloc
\* starts only after SetBoundaries has completed, and after
\* RestrictPhysicalBounds on a multilevel mesh; it never runs in an earlier
\* stage nor while SendBoundaryBuffers has started and SetBoundaries has not
\* completed.
C26_DeallocPlacement ==
  /\ InList("dealloc") => tasks.stage = tasks.nstages
  /\ Started("dealloc") => Completed("set")
  /\ (Started("dealloc") /\ tasks.multilevel) => Completed("restrict")
  /\ tasks.stage < tasks.nstages => ~Started("dealloc")
  /\ ~(Started("dealloc") /\ Started("send") /\ ~Completed("set"))

\* the last of two stages on a multilevel mesh, SparseDealloc has run
C26_Witness ==
  /\ tasks.stage = 2 /\ tasks.nstages = 2 /\ tasks.multilevel
  /\ Completed("dealloc") /\ Completed("send")

\* both windows of a block and its finer neighbor have been computed
FiDone == idx.toFiner # NoWin /\ idx.fromFiner # NoWin

\* the place of an axis among the zero-offset axes, in the order x1, x2, x3
ZeroRank(nb, axis) ==
  1 + (IF axis > 1 /\ nb.ox1 = 0 THEN 1 ELSE 0) + (IF axis > 2 /\ nb.ox2 = 0 THEN 1 ELSE 0)

\* the first zero-offset axis by fi1, the second by fi2
FiOfRank(nb, r) == IF r = 1 THEN nb.fi1 ELSE nb.fi2

\* an axis of more than one cell with offset zero: t, the window set from the
\* finer neighbor, is the half that fi selects, and l, the window loaded to it,
\* is that half widened by cnghost
BothByFi(ox, b, nx, halved, cnghost, fi, l, t) ==
  (ox = 0 /\ halved) =>
    /\ t = HalfOf(b, nx, fi)
    /\ l = IF fi = 1 THEN [s |-> HalfOf(b, nx, 1).s - cnghost, e |-> b.e]
           ELSE [s |-> b.s, e |-> HalfOf(b, nx, 0).e + cnghost]

\* t is the upper half of the interior range b of nx cells
KeepsUpper(b, nx, t) == t.s = b.s + nx \div 2

\* C34: CalcIndicesSetFromFiner and CalcIndicesLoadToFiner select every axis of
\* offset zero and more than one cell by the same one of fi1 and fi2: the first
\* zero-offset axis in the order x1, x2, x3 by fi1 and the second by fi2, so two
\* different zero-offset axes are never selected by the same fi.
C34_SameFiRule ==
  FiDone =>
    LET nb == idx.nb
        pmb == idx.pmb
        b == cellbounds(pmb)
    IN /\ BothByFi(nb.ox1, b.i, pmb.nx1, TRUE, pmb.cng, FiOfRank(nb, ZeroRank(nb, 1)),
                   AxisI(idx.toFiner), AxisI(idx.fromFiner))
       /\ BothByFi(nb.ox2, b.j, pmb.nx2, pmb.nx2 > 1, pmb.cng, FiOfRank(nb, ZeroRank(nb, 2)),
                   AxisJ(idx.toFiner), AxisJ(idx.fromFiner))
       /\ BothByFi(nb.ox3, b.k, pmb.nx3, pmb.nx3 > 1, pmb.cng, FiOfRank(nb, ZeroRank(nb, 3)),
                   AxisK(idx.toFiner), AxisK(idx.fromFiner))
       /\ (nb.ox1 = 0 /\ nb.ox2 = 0 /\ pmb.nx2 > 1) =>
            /\ KeepsUpper(b.i, pmb.nx1, AxisI(idx.fromFiner)) <=> nb.fi1 = 1
            /\ KeepsUpper(b.j, pmb.nx2, AxisJ(idx.fromFiner)) <=> nb.fi2 = 1
       /\ (nb.ox1 = 0 /\ nb.ox3 = 0 /\ pmb.nx3 > 1) =>
            /\ KeepsUpper(b.i, pmb.nx1, AxisI(idx.fromFiner)) <=> nb.fi1 = 1
            /\ KeepsUpper(b.k, pmb.nx3, AxisK(idx.fromFiner)) <=> nb.fi2 = 1
       /\ (nb.ox2 = 0 /\ nb.ox3 = 0 /\ pmb.nx3 > 1) =>
            /\ KeepsUpper(b.j, pmb.nx2, AxisJ(idx.fromFiner)) <=> nb.fi1 = 1
            /\ KeepsUpper(b.k, pmb.nx3, AxisK(idx.fromFiner)) <=> nb.fi2 = 1

\* an edge neighbor across x1 and a face neighbor across x2 of a 4 x 4 x 4 block,
\* fi1 = 1 and fi2 = 0: the only zero-offset axis of the first, x3, keeps the upper
\* half; of the second, x1 keeps the upper half and x3 the lower half
C34_Witness ==
  /\ FiDone
  /\ idx.pmb.nx1 = 4 /\ idx.pmb.nx2 = 4 /\ idx.pmb.nx3 = 4
  /\ idx.pmb.ng = 2 /\ idx.pmb.cng = 1
  /\ idx.nb.ox1 = 0 /\ idx.nb.ox2 = 1 /\ idx.nb.ox3 = 0
  /\ idx.nb.fi1 = 1 /\ idx.nb.fi2 = 0
  /\ AxisI(idx.fromFiner) = [s |-> 4, e |-> 5] /\ AxisI(idx.toFiner) = [s |-> 3, e |-> 5]
  /\ AxisK(idx.fromFiner) = [s |-> 2, e |-> 3] /\ AxisK(idx.toFiner) = [s |-> 2, e |-> 4]

\* range r lies inside range b
Inside(r, b) == b.s <= r.s /\ r.e <= b.e

\* every axis of window w is not empty and lies inside the range of box
WindowInside(w, box) ==
  /\ w.si <= w.ei /\ w.sj <= w.ej /\ w.sk <= w.ek
  /\ Inside(AxisI(w), box.i) /\ Inside(AxisJ(w), box.j) /\ Inside(AxisK(w), box.k)

Max(a, b) == IF a >= b THEN a ELSE b

\* the block size is at least 2 * max(nghost, cnghost) in each active dimension
WideEnough(pmb) ==
  LET m == 2 * Max(pmb.ng, pmb.cng)
  IN /\ pmb.nx1 >= m
     /\ pmb.nx2 > 1 => pmb.nx2 >= m
     /\ pmb.nx3 > 1 => pmb.nx3 >= m

\* the interior range of the array the sender reads: the coarse buffer for a
\* coarser neighbor, the variable's data otherwise
ReadInterior(nb, pmb) ==
  IF nb.level < pmb.level THEN c_cellbounds(pmb) ELSE cellbounds(pmb)

\* the range of the array the receiver writes: the coarse buffer with its coarse
\* ghost cells for a coarser neighbor, the variable's data with its ghost cells
\* otherwise
WrittenArray(nb, pmb) ==
  LET coarse == nb.level < pmb.level
      b == IF coarse THEN c_cellbounds(pmb) ELSE cellbounds(pmb)
      g == IF coarse THEN pmb.cng ELSE pmb.ng
  IN [i |-> EntireRange(b.i, g, TRUE),
      j |-> EntireRange(b.j, g, pmb.nx2 > 1),
      k |-> EntireRange(b.k, g, pmb.nx3 > 1)]

C37_DeallocAfterInit ==
  Started("dealloc") => Completed("init_allocated")

\* two edges of the forest have been looked up
BothLookedUp == forest.query # NoQuery /\ "second" \in DOMAIN forest

\* d is one of the neighbors that a lookup has returned
Returned(neighbors, d) == \E m \in 1..Len(neighbors) : neighbors[m] = d

\* C38: for two different faces F1, F2 made by Face::create, (F2, loc2, o) is
\* among FindEdgeNeighbors(F1, loc1) iff (F1, loc1, o) is among
\* FindEdgeNeighbors(F2, loc2), with the same orientation o.
C38_EdgeNeighborsSymmetric ==
  (BothLookedUp /\ forest.query.face # forest.second.face) =>
    \A o \in {-1, 1} :
      Returned(forest.neighbors, <<forest.second.face, forest.second.loc, o>>)
        <=> Returned(forest.second.neighbors, <<forest.query.face, forest.query.loc, o>>)

\* the East edge of the first face is the West edge of the second, reversed:
\* each lookup returns the other face with the orientation -1
C38_Witness ==
  /\ BothLookedUp
  /\ forest.query = [face |-> 1, loc |-> East]
  /\ forest.second.face = 2 /\ forest.second.loc = West
  /\ Returned(forest.neighbors, <<2, West, -1>>)
  /\ Returned(forest.second.neighbors, <<1, East, -1>>)

\* the team of SetBoundaries has run for the entry
SetOneDone == idx.launched

\* cell c = (v, k, j, i) lies in the interior of the block's data array
InInterior(c, pmb) ==
  LET b == cellbounds(pmb)
  IN /\ b.k.s <= c[2] /\ c[2] <= b.k.e
     /\ b.j.s <= c[3] /\ c[3] <= b.j.e
     /\ b.i.s <= c[4] /\ c[4] <= b.i.e

\* C39: for an entry with offsets other than (0, 0, 0) SetBoundaries writes no
\* cell of the interior of the variable's data array: the window of an entry
\* from the same level or from a finer neighbor lies in the ghost cells of the
\* data array, and an entry from a coarser neighbor writes the coarse buffer
\* only.
C39_SetLeavesInterior ==
  SetOneDone =>
    /\ \A x \in idx.written : x[1] = "data" => ~InInterior(x[2], idx.pmb)
    /\ idx.nb.level >= idx.pmb.level => \A x \in idx.written : x[1] = "data"
    /\ idx.nb.level < idx.pmb.level => \A x \in idx.written : x[1] = "coarse_buf"

\* an allocated 4 x 4 block with two ghost cells and a finer neighbor at
\* ox1 = -1, fi1 = 1: the two ghost columns below the interior, along the upper
\* half of x2, are written
C39_Witness ==
  /\ SetOneDone
  /\ idx.pmb.nx1 = 4 /\ idx.pmb.nx2 = 4 /\ idx.pmb.nx3 = 1 /\ idx.pmb.ng = 2
  /\ idx.nb.level > idx.pmb.level
  /\ idx.nb.ox1 = -1 /\ idx.nb.ox2 = 0 /\ idx.nb.fi1 = 1
  /\ idx.written = {<<"data", <<0, 0, j, i>>>> : j \in 4..5, i \in 0..1}

\* SendAndNotify of partition p stands at an entry it does not skip
AtSendEntry(p) ==
  /\ cur.md = p /\ cur.at = "notify" /\ cur.pos <= Len(Triples(p))
  /\ LET g == Triples(p)[cur.pos][1]
     IN sflag[g][NeighborsOf(g)[Triples(p)[cur.pos][2]].bufid] # "completed"

\* C33: for a send entry whose neighbor is on this rank, whatever the earlier
\* exchanges did to the neighbor's allocation, the buffer the cache holds for
\* the entry is the neighbor's recv[target_id] exactly if
\* local_neighbor_allocated, as SendAndNotify reads it, is true, and the
\* sender's own send[buf_id] otherwise.
C33_TargetBufferCurrent ==
  \A p \in MDs :
    AtSendEntry(p) =>
      LET g == Triples(p)[cur.pos][1]
          n == Triples(p)[cur.pos][2]
          nb == NeighborsOf(g)[n]
      IN nb.rank = my_rank =>
           sendCache[p].info[cur.b].buf =
             (IF lna[g][n] THEN <<"recv", nb.gid, nb.targetid>> ELSE <<"send", g, nb.bufid>>)

\* new_neighbor_alloc of the entry SendAndNotify stands at
NewNeighborAlloc(p) ==
  LET g == Triples(p)[cur.pos][1]
      n == Triples(p)[cur.pos][2]
  IN sparse_enabled /\ ~lna[g][n] /\ sendCache[p].nonzero[cur.b]

\* C35: with an allocation threshold of zero or more, new_neighbor_alloc is true
\* only at an entry whose source variable is allocated: the check 'Expected
\* source variable to be allocated' never fails, and AllocateSparse with the deep
\* copy that follows it is reached from an allocated sender only.
C35_AllocatedSourceOnly ==
  /\ err # "source variable not allocated"
  /\ \A p \in MDs :
       (AtSendEntry(p) /\ NeighborsOf(Triples(p)[cur.pos][1])[Triples(p)[cur.pos][2]].rank = my_rank
          /\ NewNeighborAlloc(p))
       => allocated[Triples(p)[cur.pos][1]]
  /\ \A p \in MDs :
       (cur.md = p /\ cur.at = "copy") => allocated[Triples(p)[cur.pos][1]]

\* block 1 is allocated and block 2 is not: SendAndNotify stands at the entry of
\* block 1 with new_neighbor_alloc true
C35_Witness ==
  /\ AtSendEntry(cur.md)
  /\ Triples(cur.md)[cur.pos][1] = 1
  /\ NewNeighborAlloc(cur.md)
  /\ allocated[1] /\ ~allocated[2]

\* C32: within one SendBoundaryBuffers call the index b that SendAndNotify
\* counts refers to the (block, variable, neighbor) it stands at: alloc_status,
\* the cache and sending_nonzero_flags have one element per triple, element b
\* of the cache was made for the block and the neighbor of the triple, no
\* entry is skipped because an earlier one was marked completed, and the check
\* 'Alloc status mismatch' never fails.
C32_EntryIndexConsistent ==
  /\ err # "alloc status mismatch"
  /\ \A p \in MDs :
       (cur.md = p /\ cur.at \in {"notify", "copy", "arrive"}) =>
         /\ Len(sendCache[p].info) = Len(Triples(p))
         /\ Len(sendCache[p].alloc_status) = Len(Triples(p))
         /\ Len(sendCache[p].nonzero) = Len(Triples(p))
         /\ cur.b = cur.pos
         /\ cur.pos <= Len(Triples(p)) =>
              LET g == Triples(p)[cur.pos][1]
                  nb == NeighborsOf(g)[Triples(p)[cur.pos][2]]
                  info == sendCache[p].info[cur.b]
              IN /\ sflag[g][nb.bufid] # "completed"
                 /\ info.var = g
                 /\ info.buf \in {<<"send", g, nb.bufid>>, <<"recv", nb.gid, nb.targetid>>}
                 /\ info.allocated = sendCache[p].alloc_status[cur.b]

\* SendAndNotify stands at the second entry of a MeshData of two blocks, the
\* send flag of the first entry already completed, in an exchange that reuses
\* the cache of the exchange before
C32_Witness ==
  /\ pack_size = 2 /\ ncycle >= 1
  /\ AtSendEntry(1) /\ cur.pos = 2
  /\ sflag[1][NeighborsOf(1)[1].bufid] = "completed"
  /\ <<"send", 1>> \notin hist.rebuilt

\* C31: on every SendBoundaryBuffers call, with the cache rebuilt or reused,
\* Restrict runs exactly once and before the pack kernel; the entries marked
\* restriction are exactly those of an allocated variable with a coarser
\* neighbor, and those entries pack from the coarse buffer, restricted in this
\* call, with the window CalcIndicesLoadSame gives on the coarse bounds.
C31_RestrictBeforePack ==
  snd.host \in {"pack", "sent"} =>
    /\ snd.log \in {<<"restrict">>, <<"restrict", "pack">>}
    /\ \A e \in DOMAIN snd.nbs :
         LET info == snd.cache.info[e]
             nb == snd.nbs[e]
             cb == c_cellbounds(snd.pmb)
             i == CalcIndicesLoadSame(nb.ox1, cb.i, snd.pmb.ng)
             j == CalcIndicesLoadSame(nb.ox2, cb.j, snd.pmb.ng)
             k == CalcIndicesLoadSame(nb.ox3, cb.k, snd.pmb.ng)
         IN /\ info.restriction <=> (snd.allocated /\ nb.level < snd.pmb.level)
            /\ info.restriction =>
                 /\ info.var = "coarse_buf"
                 /\ info.w = Window(i.s, i.e, j.s, j.e, k.s, k.e)
                 /\ snd.host = "sent" => snd.read[e] = "restricted"
            /\ (snd.host = "sent" /\ ~info.restriction) => snd.read[e] \in {"data", "zeros"}

\* a call that reuses the cache has packed: the entry to the west has a coarser
\* neighbor and is marked, the entry to the east has a finer one and is not
C31_Witness ==
  /\ snd # Unused /\ "log" \in DOMAIN snd
  /\ snd.host = "sent" /\ ~snd.rebuilt /\ snd.sends >= 2
  /\ snd.nbs[1].level = 0 /\ snd.nbs[2].level = 2
  /\ snd.cache.info[1].restriction /\ ~snd.cache.info[2].restriction
  /\ snd.read = <<"restricted", "data">>

\* every partition's SendBoundaryBuffers of the stage has returned
AllSent == \A p \in MDs : pc[p] \in {"recv", "set", "post"}

\* C40: with every block on this rank and one, two or four MeshData
\* partitions, under an executor that keeps running the tasks that can go on,
\* the task list of every partition gets past ReceiveBoundaryBuffers and through
\* SetBoundaries in the first stage and in the second, so no list polls forever
\* for another partition; no fatal check fails, and once every partition's
\* SendBoundaryBuffers has run every receive flag has arrived.
C40_ExchangeTerminates ==
  /\ <>[](ncycle = 1 /\ \A p \in MDs : pc[p] = "post")
  /\ [](/\ err = "none"
        /\ AllSent => \A g \in Gids : \A o \in BufIds(g) : flag[g][o] \in {"arrived", "completed"})

\* four partitions in the second stage: the list of partition 1 is past its
\* receive while partition 2 still polls for the buffer of partition 3, which
\* has not sent yet
C40_Witness ==
  /\ pack_size = 1 /\ ncycle = 1 /\ cur = Idle
  /\ pc[1] \in {"set", "post"} /\ pc[2] = "recv" /\ pc[3] = "send"
  /\ ~BlockReceived(2)

====
